---------------------------- MODULE Spec2Model ----------------------------
(***************************************************************************)
(* A model of the ESG scoring and incentive engine of                      *)
(* src/esg_incentive_tracker.py: the three metric trackers, the score      *)
(* composer, the incentive catalog, the eligibility evaluator, the value   *)
(* calculator and the integration engine.                                  *)
(*                                                                         *)
(* Conventions.                                                            *)
(*   - Optional[T]: None is the empty tuple, a present value x is <<x>>.   *)
(*   - Python strings are TLA+ strings; their characters (needed by        *)
(*     lower(), replace() and the substring test `in`) are looked up in    *)
(*     CharTable, so a string operation is computed on the characters.     *)
(*   - Decimal money is an integer number of cents.  The inputs are whole  *)
(*     dollars and whole percentages, so every product the code forms is   *)
(*     exact in cents.                                                     *)
(*   - A metric value is an integer number of hundredths (value * 100), a  *)
(*     category score is an integer number of 1/10000 points, the overall  *)
(*     score an integer number of 1/1000000 points; the inputs are chosen  *)
(*     so that every quotient the code forms is exact.  Rounding of binary *)
(*     floating point is not modelled.                                     *)
(*   - A date is the integer yyyymmdd, which orders as dates do.           *)
(*   - A call that raises leaves [kind |-> "raise", exc |-> ...] as its    *)
(*     outcome; what it appended before the raise stays appended.          *)
(*   - The four catalog tables are state, set by the loaders when the      *)
(*     engine is constructed.                                              *)
(*   - tasks holds the process coroutines a host runs at once, each with   *)
(*     the await it is stopped at; it is empty when process is called and  *)
(*     awaited alone.                                                      *)
(***************************************************************************)
EXTENDS Integers, Sequences, FiniteSets, TLC

VARIABLES
    environmental_metrics,  \* EnvironmentalTracker.metrics
    carbon_credits,         \* EnvironmentalTracker.carbon_credits
    social_metrics,         \* SocialImpactTracker.metrics
    governance_metrics,     \* GovernanceTracker.metrics
    federal_incentives,     \* IncentiveCalculationEngine.federal_incentives
    state_incentives,       \* IncentiveCalculationEngine.state_incentives
    local_incentives,       \* IncentiveCalculationEngine.local_incentives
    utility_incentives,     \* IncentiveCalculationEngine.utility_incentives
    today,                  \* what date.today() returns
    tasks,                  \* the process coroutines in flight, each at its await point
    last                    \* the last completed call: its operation, arguments and outcome

trackers == <<environmental_metrics, carbon_credits, social_metrics, governance_metrics>>
catalog == <<federal_incentives, state_incentives, local_incentives, utility_incentives>>
vars == <<environmental_metrics, carbon_credits, social_metrics, governance_metrics,
          federal_incentives, state_incentives, local_incentives, utility_incentives,
          today, tasks, last>>

----------------------------------------------------------------------------
(* Optional values and truthiness *)

None == <<>>

Some(x) == <<x>>

\* Python's truth value of an Optional number: None and zero are false.
Truthy(opt) == opt # None /\ opt[1] # 0

\* Python's `x or d` on an Optional number.
OrElse(opt, d) == IF Truthy(opt) THEN opt[1] ELSE d

\* Op applied to the value of e: e is evaluated once, whatever number of times
\* Op uses it (a sequence of statements, each result named once).
Let(e, Op(_)) == CHOOSE r \in {Op(x) : x \in {e}} : TRUE

Min(a, b) == IF a <= b THEN a ELSE b

Max(a, b) == IF a >= b THEN a ELSE b

----------------------------------------------------------------------------
(* Strings *)

CharTable ==
    ("solar" :> <<"s", "o", "l", "a", "r">>) @@
    ("wind" :> <<"w", "i", "n", "d">>) @@
    ("energy efficiency" :> <<"e", "n", "e", "r", "g", "y", " ", "e", "f", "f", "i", "c", "i", "e", "n", "c", "y">>) @@
    ("efficiency" :> <<"e", "f", "f", "i", "c", "i", "e", "n", "c", "y">>) @@
    ("commercial" :> <<"c", "o", "m", "m", "e", "r", "c", "i", "a", "l">>) @@
    ("residential" :> <<"r", "e", "s", "i", "d", "e", "n", "t", "i", "a", "l">>) @@
    ("renewable_energy" :> <<"r", "e", "n", "e", "w", "a", "b", "l", "e", "_", "e", "n", "e", "r", "g", "y">>) @@
    ("hire_rate" :> <<"h", "i", "r", "e", "_", "r", "a", "t", "e">>) @@
    ("compliance" :> <<"c", "o", "m", "p", "l", "i", "a", "n", "c", "e">>) @@
    ("energy_efficiency_improvement" :> <<"e", "n", "e", "r", "g", "y", "_", "e", "f", "f", "i", "c", "i", "e", "n", "c", "y", "_", "i", "m", "p", "r", "o", "v", "e", "m", "e", "n", "t">>) @@
    ("renewable_energy_solar_pv" :> <<"r", "e", "n", "e", "w", "a", "b", "l", "e", "_", "e", "n", "e", "r", "g", "y", "_", "s", "o", "l", "a", "r", "_", "p", "v">>) @@
    ("water_efficiency_improvement" :> <<"w", "a", "t", "e", "r", "_", "e", "f", "f", "i", "c", "i", "e", "n", "c", "y", "_", "i", "m", "p", "r", "o", "v", "e", "m", "e", "n", "t">>) @@
    ("waste_diversion_rate" :> <<"w", "a", "s", "t", "e", "_", "d", "i", "v", "e", "r", "s", "i", "o", "n", "_", "r", "a", "t", "e">>) @@
    ("local_hire_rate" :> <<"l", "o", "c", "a", "l", "_", "h", "i", "r", "e", "_", "r", "a", "t", "e">>) @@
    ("minority_hire_rate" :> <<"m", "i", "n", "o", "r", "i", "t", "y", "_", "h", "i", "r", "e", "_", "r", "a", "t", "e">>) @@
    ("women_hire_rate" :> <<"w", "o", "m", "e", "n", "_", "h", "i", "r", "e", "_", "r", "a", "t", "e">>) @@
    ("veteran_hire_rate" :> <<"v", "e", "t", "e", "r", "a", "n", "_", "h", "i", "r", "e", "_", "r", "a", "t", "e">>) @@
    ("apprenticeship_rate" :> <<"a", "p", "p", "r", "e", "n", "t", "i", "c", "e", "s", "h", "i", "p", "_", "r", "a", "t", "e">>) @@
    ("osha_incident_rate" :> <<"o", "s", "h", "a", "_", "i", "n", "c", "i", "d", "e", "n", "t", "_", "r", "a", "t", "e">>) @@
    ("near_miss_rate" :> <<"n", "e", "a", "r", "_", "m", "i", "s", "s", "_", "r", "a", "t", "e">>) @@
    ("permit_compliance" :> <<"p", "e", "r", "m", "i", "t", "_", "c", "o", "m", "p", "l", "i", "a", "n", "c", "e">>) @@
    ("safety_compliance" :> <<"s", "a", "f", "e", "t", "y", "_", "c", "o", "m", "p", "l", "i", "a", "n", "c", "e">>) @@
    ("environmental_compliance" :> <<"e", "n", "v", "i", "r", "o", "n", "m", "e", "n", "t", "a", "l", "_", "c", "o", "m", "p", "l", "i", "a", "n", "c", "e">>) @@
    ("certification_count" :> <<"c", "e", "r", "t", "i", "f", "i", "c", "a", "t", "i", "o", "n", "_", "c", "o", "u", "n", "t">>) @@
    ("renewable_energy_wind" :> <<"r", "e", "n", "e", "w", "a", "b", "l", "e", "_", "e", "n", "e", "r", "g", "y", "_", "w", "i", "n", "d">>) @@
    ("carbon_footprint" :> <<"c", "a", "r", "b", "o", "n", "_", "f", "o", "o", "t", "p", "r", "i", "n", "t">>) @@
    ("Solar PV system installation" :> <<"S", "o", "l", "a", "r", " ", "P", "V", " ", "s", "y", "s", "t", "e", "m", " ", "i", "n", "s", "t", "a", "l", "l", "a", "t", "i", "o", "n">>) @@
    ("System must be placed in service by Dec 31, 2032" :> <<"S", "y", "s", "t", "e", "m", " ", "m", "u", "s", "t", " ", "b", "e", " ", "p", "l", "a", "c", "e", "d", " ", "i", "n", " ", "s", "e", "r", "v", "i", "c", "e", " ", "b", "y", " ", "D", "e", "c", " ", "3", "1", ",", " ", "2", "0", "3", "2">>) @@
    ("System must meet IRS guidelines" :> <<"S", "y", "s", "t", "e", "m", " ", "m", "u", "s", "t", " ", "m", "e", "e", "t", " ", "I", "R", "S", " ", "g", "u", "i", "d", "e", "l", "i", "n", "e", "s">>) @@
    ("Wind energy facility" :> <<"W", "i", "n", "d", " ", "e", "n", "e", "r", "g", "y", " ", "f", "a", "c", "i", "l", "i", "t", "y">>) @@
    ("Construction begins before Jan 1, 2025" :> <<"C", "o", "n", "s", "t", "r", "u", "c", "t", "i", "o", "n", " ", "b", "e", "g", "i", "n", "s", " ", "b", "e", "f", "o", "r", "e", " ", "J", "a", "n", " ", "1", ",", " ", "2", "0", "2", "5">>) @@
    ("Commercial building" :> <<"C", "o", "m", "m", "e", "r", "c", "i", "a", "l", " ", "b", "u", "i", "l", "d", "i", "n", "g">>) @@
    ("50%+ energy reduction vs ASHRAE standard" :> <<"5", "0", "%", "+", " ", "e", "n", "e", "r", "g", "y", " ", "r", "e", "d", "u", "c", "t", "i", "o", "n", " ", "v", "s", " ", "A", "S", "H", "R", "A", "E", " ", "s", "t", "a", "n", "d", "a", "r", "d">>) @@
    ("Prevailing wage requirements met" :> <<"P", "r", "e", "v", "a", "i", "l", "i", "n", "g", " ", "w", "a", "g", "e", " ", "r", "e", "q", "u", "i", "r", "e", "m", "e", "n", "t", "s", " ", "m", "e", "t">>) @@
    ("Qualified new home" :> <<"Q", "u", "a", "l", "i", "f", "i", "e", "d", " ", "n", "e", "w", " ", "h", "o", "m", "e">>) @@
    ("Energy Star or equivalent certification" :> <<"E", "n", "e", "r", "g", "y", " ", "S", "t", "a", "r", " ", "o", "r", " ", "e", "q", "u", "i", "v", "a", "l", "e", "n", "t", " ", "c", "e", "r", "t", "i", "f", "i", "c", "a", "t", "i", "o", "n">>) @@
    ("Meets prevailing wage requirements" :> <<"M", "e", "e", "t", "s", " ", "p", "r", "e", "v", "a", "i", "l", "i", "n", "g", " ", "w", "a", "g", "e", " ", "r", "e", "q", "u", "i", "r", "e", "m", "e", "n", "t", "s">>) @@
    ("Florida resident" :> <<"F", "l", "o", "r", "i", "d", "a", " ", "r", "e", "s", "i", "d", "e", "n", "t">>) @@
    ("Solar PV system" :> <<"S", "o", "l", "a", "r", " ", "P", "V", " ", "s", "y", "s", "t", "e", "m">>) @@
    ("System size 2kW minimum" :> <<"S", "y", "s", "t", "e", "m", " ", "s", "i", "z", "e", " ", "2", "k", "W", " ", "m", "i", "n", "i", "m", "u", "m">>) @@
    ("Commercial or industrial property" :> <<"C", "o", "m", "m", "e", "r", "c", "i", "a", "l", " ", "o", "r", " ", "i", "n", "d", "u", "s", "t", "r", "i", "a", "l", " ", "p", "r", "o", "p", "e", "r", "t", "y">>) @@
    ("Energy efficiency or renewable energy project" :> <<"E", "n", "e", "r", "g", "y", " ", "e", "f", "f", "i", "c", "i", "e", "n", "c", "y", " ", "o", "r", " ", "r", "e", "n", "e", "w", "a", "b", "l", "e", " ", "e", "n", "e", "r", "g", "y", " ", "p", "r", "o", "j", "e", "c", "t">>) @@
    ("Solar energy device" :> <<"S", "o", "l", "a", "r", " ", "e", "n", "e", "r", "g", "y", " ", "d", "e", "v", "i", "c", "e">>) @@
    ("Installed on or in connection with dwelling" :> <<"I", "n", "s", "t", "a", "l", "l", "e", "d", " ", "o", "n", " ", "o", "r", " ", "i", "n", " ", "c", "o", "n", "n", "e", "c", "t", "i", "o", "n", " ", "w", "i", "t", "h", " ", "d", "w", "e", "l", "l", "i", "n", "g">>) @@
    ("Louisiana resident" :> <<"L", "o", "u", "i", "s", "i", "a", "n", "a", " ", "r", "e", "s", "i", "d", "e", "n", "t">>) @@
    ("Solar energy system for residence" :> <<"S", "o", "l", "a", "r", " ", "e", "n", "e", "r", "g", "y", " ", "s", "y", "s", "t", "e", "m", " ", "f", "o", "r", " ", "r", "e", "s", "i", "d", "e", "n", "c", "e">>) @@
    ("New York State resident" :> <<"N", "e", "w", " ", "Y", "o", "r", "k", " ", "S", "t", "a", "t", "e", " ", "r", "e", "s", "i", "d", "e", "n", "t">>) @@
    ("Solar electric generating equipment" :> <<"S", "o", "l", "a", "r", " ", "e", "l", "e", "c", "t", "r", "i", "c", " ", "g", "e", "n", "e", "r", "a", "t", "i", "n", "g", " ", "e", "q", "u", "i", "p", "m", "e", "n", "t">>) @@
    ("Miami-Dade County resident" :> <<"M", "i", "a", "m", "i", "-", "D", "a", "d", "e", " ", "C", "o", "u", "n", "t", "y", " ", "r", "e", "s", "i", "d", "e", "n", "t">>) @@
    ("Solar PV installation" :> <<"S", "o", "l", "a", "r", " ", "P", "V", " ", "i", "n", "s", "t", "a", "l", "l", "a", "t", "i", "o", "n">>) @@
    ("FPL customer" :> <<"F", "P", "L", " ", "c", "u", "s", "t", "o", "m", "e", "r">>) @@
    ("Community solar subscription" :> <<"C", "o", "m", "m", "u", "n", "i", "t", "y", " ", "s", "o", "l", "a", "r", " ", "s", "u", "b", "s", "c", "r", "i", "p", "t", "i", "o", "n">>) @@
    ("Residential property" :> <<"R", "e", "s", "i", "d", "e", "n", "t", "i", "a", "l", " ", "p", "r", "o", "p", "e", "r", "t", "y">>) @@
    ("" :> <<>>) @@
    ("residential solar installation" :> <<"r", "e", "s", "i", "d", "e", "n", "t", "i", "a", "l", " ", "s", "o", "l", "a", "r", " ", "i", "n", "s", "t", "a", "l", "l", "a", "t", "i", "o", "n">>) @@
    ("wind turbine retrofit" :> <<"w", "i", "n", "d", " ", "t", "u", "r", "b", "i", "n", "e", " ", "r", "e", "t", "r", "o", "f", "i", "t">>) @@
    ("commercial energy efficiency upgrade" :> <<"c", "o", "m", "m", "e", "r", "c", "i", "a", "l", " ", "e", "n", "e", "r", "g", "y", " ", "e", "f", "f", "i", "c", "i", "e", "n", "c", "y", " ", "u", "p", "g", "r", "a", "d", "e">>) @@
    ("storm restoration with solar installation" :> <<"s", "t", "o", "r", "m", " ", "r", "e", "s", "t", "o", "r", "a", "t", "i", "o", "n", " ", "w", "i", "t", "h", " ", "s", "o", "l", "a", "r", " ", "i", "n", "s", "t", "a", "l", "l", "a", "t", "i", "o", "n">>) @@
    ("Solar Farm" :> <<"S", "o", "l", "a", "r", " ", "F", "a", "r", "m">>) @@
    ("FL" :> <<"F", "L">>) @@
    ("TX" :> <<"T", "X">>) @@
    ("LA" :> <<"L", "A">>) @@
    ("NY" :> <<"N", "Y">>) @@
    ("ZZ" :> <<"Z", "Z">>) @@
    ("Miami" :> <<"M", "i", "a", "m", "i">>) @@
    ("Miami Dade" :> <<"M", "i", "a", "m", "i", " ", "D", "a", "d", "e">>) @@
    ("Tampa" :> <<"T", "a", "m", "p", "a">>) @@
    ("TECO" :> <<"T", "E", "C", "O">>) @@
    ("FPL" :> <<"F", "P", "L">>) @@
    ("Florida Power & Light" :> <<"F", "l", "o", "r", "i", "d", "a", " ", "P", "o", "w", "e", "r", " ", "&", " ", "L", "i", "g", "h", "t">>) @@
    ("miami_dade_fl" :> <<"m", "i", "a", "m", "i", "_", "d", "a", "d", "e", "_", "f", "l">>) @@
    ("fpl" :> <<"f", "p", "l">>)

Chars(s) == CharTable[s]

UpperCase == <<"A","B","C","D","E","F","G","H","I","J","K","L","M",
               "N","O","P","Q","R","S","T","U","V","W","X","Y","Z">>

LowerCase == <<"a","b","c","d","e","f","g","h","i","j","k","l","m",
               "n","o","p","q","r","s","t","u","v","w","x","y","z">>

LowerChar(c) ==
    IF \E i \in 1..Len(UpperCase) : UpperCase[i] = c
    THEN LowerCase[CHOOSE i \in 1..Len(UpperCase) : UpperCase[i] = c]
    ELSE c

\* str.lower()
Lower(cs) == [i \in 1..Len(cs) |-> LowerChar(cs[i])]

\* str.replace(old, new) for a one-character old and a new of at most one character
RECURSIVE Replace(_, _, _)
Replace(cs, old, new) ==
    IF cs = <<>> THEN <<>>
    ELSE (IF Head(cs) = old THEN new ELSE <<Head(cs)>>) \o Replace(Tail(cs), old, new)

\* sub in cs
StrIn(sub, cs) ==
    \E i \in 1..(Len(cs) - Len(sub) + 1) : SubSeq(cs, i, i + Len(sub) - 1) = sub

\* The strings the substring tests look for.
Needles == {"solar", "wind", "energy efficiency", "efficiency", "commercial",
            "residential", "renewable_energy", "hire_rate", "compliance"}

\* sub in s, for every needle and string of the model, computed once
InTable == [sub \in Needles |-> {s \in DOMAIN CharTable : StrIn(Chars(sub), Chars(s))}]

\* sub in s.lower(), computed once
InLowerTable ==
    [sub \in Needles |-> {s \in DOMAIN CharTable : StrIn(Chars(sub), Lower(Chars(s)))}]

\* sub in s
Contains(s, sub) == s \in InTable[sub]

\* sub in s.lower()
LowerContains(s, sub) == s \in InLowerTable[sub]

----------------------------------------------------------------------------
(* Decimal arithmetic, in cents *)

Dollars(n) == n * 100

\* project_cost * Decimal(str(percentage / 100))
PercentOf(project_cost, percentage) == (project_cost * percentage) \div 100

----------------------------------------------------------------------------
(* IncentiveOpportunity *)

IncentiveOpportunity(id, nm, ty, amt, pct, mx, st, loc, util, crit, appl, start, compl, pre, stack, claw) ==
    [incentive_id |-> id, name |-> nm, type |-> ty, amount |-> amt,
     percentage |-> pct, max_amount |-> mx, state |-> st, locality |-> loc,
     utility_provider |-> util, eligibility_criteria |-> crit,
     application_deadline |-> appl, project_start_deadline |-> start,
     project_completion_deadline |-> compl, requires_pre_approval |-> pre,
     stacking_allowed |-> stack, clawback_provisions |-> claw]

----------------------------------------------------------------------------
(* Incentive Catalog *)

_load_federal_incentives == <<
    IncentiveOpportunity("ITC_SOLAR_2024", "Solar Investment Tax Credit", "federal_tax_credit",
        Some(0), Some(30), None, "ALL", None, None,
        <<"Solar PV system installation",
          "System must be placed in service by Dec 31, 2032",
          "System must meet IRS guidelines">>,
        None, Some(20321231), Some(20321231), FALSE, TRUE,
        <<"System must remain in service for 5 years">>),
    IncentiveOpportunity("PTC_WIND_2024", "Wind Production Tax Credit", "federal_tax_credit",
        Some(Dollars(28)), None, None, "ALL", None, None,
        <<"Wind energy facility", "Construction begins before Jan 1, 2025">>,
        None, Some(20241231), None, FALSE, TRUE, <<>>),
    IncentiveOpportunity("179D_DEDUCTION_2024",
        "179D Energy Efficient Commercial Buildings Deduction", "federal_tax_credit",
        Some(536), None, None, "ALL", None, None,
        <<"Commercial building", "50%+ energy reduction vs ASHRAE standard",
          "Prevailing wage requirements met">>,
        None, None, None, FALSE, TRUE, <<>>),
    IncentiveOpportunity("45L_CREDIT_2024", "45L New Energy Efficient Home Credit",
        "federal_tax_credit",
        Some(Dollars(5000)), None, None, "ALL", None, None,
        <<"Qualified new home", "Energy Star or equivalent certification",
          "Meets prevailing wage requirements">>,
        None, None, Some(20321231), FALSE, TRUE, <<>>) >>

_load_state_incentives ==
    ("FL" :> <<
        IncentiveOpportunity("FL_SOLAR_REBATE_2024", "Florida Solar Rebate Program",
            "state_tax_credit",
            Some(0), None, Some(Dollars(20000)), "FL", None, None,
            <<"Florida resident", "Solar PV system", "System size 2kW minimum">>,
            Some(20241231), None, None, TRUE, TRUE, <<>>),
        IncentiveOpportunity("FL_PACE_2024", "Florida PACE Financing", "pace_financing",
            Some(0), None, Some(Dollars(1000000)), "FL", None, None,
            <<"Commercial or industrial property",
              "Energy efficiency or renewable energy project">>,
            None, None, None, TRUE, TRUE, <<>>) >>) @@
    ("TX" :> <<
        IncentiveOpportunity("TX_SOLAR_EXEMPTION_2024", "Texas Solar Property Tax Exemption",
            "state_tax_credit",
            Some(0), Some(100), None, "TX", None, None,
            <<"Solar energy device", "Installed on or in connection with dwelling">>,
            None, None, None, FALSE, TRUE, <<>>) >>) @@
    ("LA" :> <<
        IncentiveOpportunity("LA_SOLAR_TAX_CREDIT_2024", "Louisiana Solar Tax Credit",
            "state_tax_credit",
            Some(0), Some(25), Some(Dollars(12500)), "LA", None, None,
            <<"Louisiana resident", "Solar energy system for residence">>,
            None, None, Some(20251231), FALSE, TRUE, <<>>) >>) @@
    ("NY" :> <<
        IncentiveOpportunity("NY_SOLAR_TAX_CREDIT_2024", "New York State Solar Tax Credit",
            "state_tax_credit",
            Some(0), Some(25), Some(Dollars(5000)), "NY", None, None,
            <<"New York State resident", "Solar electric generating equipment">>,
            None, None, Some(20251231), FALSE, TRUE, <<>>) >>)

_load_local_incentives ==
    ("miami_dade_fl" :> <<
        IncentiveOpportunity("MIAMI_SOLAR_REBATE_2024", "Miami-Dade Solar Rebate", "local_rebate",
            Some(Dollars(1000)), None, Some(Dollars(1000)), "FL", Some("Miami-Dade"), None,
            <<"Miami-Dade County resident", "Solar PV installation">>,
            Some(20241231), None, None, TRUE, TRUE, <<>>) >>)

_load_utility_incentives ==
    ("fpl" :> <<
        IncentiveOpportunity("FPL_SOLAR_REBATE_2024", "FPL SolarTogether Program",
            "utility_rebate",
            Some(3), None, None, "FL", None, Some("Florida Power & Light"),
            <<"FPL customer", "Community solar subscription">>,
            None, None, None, TRUE, TRUE, <<>>) >>)

----------------------------------------------------------------------------
(* Project input: a dict; an absent key is None *)

----------------------------------------------------------------------------
(* Value Calculator *)

\* calculate_incentive_value with the cap applied to every kind of incentive.
calculate_incentive_value_capped(incentive, project_cost, project_size) ==
    LET value == IF Truthy(incentive.percentage)
                 THEN PercentOf(project_cost, incentive.percentage[1])
                 ELSE IF Truthy(project_size) /\ Truthy(incentive.amount)
                 THEN project_size[1] * incentive.amount[1]
                 ELSE OrElse(incentive.amount, 0)
    IN  IF Truthy(incentive.max_amount)
        THEN Min(value, incentive.max_amount[1])
        ELSE value

\* calculate_incentive_value with the percentage not applied: the flat amount only.
calculate_incentive_value_flat(incentive, project_cost, project_size) ==
    IF Truthy(project_size) /\ Truthy(incentive.amount)
    THEN project_size[1] * incentive.amount[1]
    ELSE OrElse(incentive.amount, 0)

calculate_incentive_value(incentive, project_cost, project_size) ==
    IF Truthy(incentive.percentage)
    THEN LET value == PercentOf(project_cost, incentive.percentage[1])
         IN  IF Truthy(incentive.max_amount)
             THEN Min(value, incentive.max_amount[1])
             ELSE value
    ELSE IF Truthy(project_size) /\ Truthy(incentive.amount)
         THEN project_size[1] * incentive.amount[1]
         ELSE OrElse(incentive.amount, 0)

\* The incentives the value calculator is applied to: every combination of
\* an amount, a percentage and a cap, each unset, zero or positive.
ValueAmounts == {None, Some(0), Some(Dollars(28)), Some(Dollars(1000))}

ValuePercentages == {None, Some(30), Some(100)}

ValueCaps == {None, Some(0), Some(Dollars(1000)), Some(Dollars(5000))}

ValueIncentives ==
    { IncentiveOpportunity("VALUE", "Value", "grant", a, p, m, "ALL", None, None,
                           <<>>, None, None, None, FALSE, TRUE, <<>>) :
        a \in ValueAmounts, p \in ValuePercentages, m \in ValueCaps }

ValueCosts == {Dollars(0 - 1000), 0, Dollars(25000), Dollars(100000)}

ValueSizes == {None, Some(0), Some(8), Some(50)}

InitEngine ==
    /\ environmental_metrics = <<>>
    /\ carbon_credits = <<>>
    /\ social_metrics = <<>>
    /\ governance_metrics = <<>>
    /\ federal_incentives = _load_federal_incentives
    /\ state_incentives = _load_state_incentives
    /\ local_incentives = _load_local_incentives
    /\ utility_incentives = _load_utility_incentives
    /\ tasks = <<>>

\* The value calculator, applied once to each input.
InitValue ==
    /\ InitEngine
    /\ today = 20240101
    /\ last \in [op : {"calculate_incentive_value"}, done : {FALSE},
                 incentive : ValueIncentives, project_cost : ValueCosts,
                 project_size : ValueSizes, value : {0}]

CallIncentiveValue ==
    /\ last.op = "calculate_incentive_value"
    /\ ~last.done
    /\ last' = [last EXCEPT
                    !.done = TRUE,
                    !.value = calculate_incentive_value(last.incentive, last.project_cost,
                                                        last.project_size)]
    /\ UNCHANGED <<trackers, catalog, today, tasks>>

NextValue == CallIncentiveValue

SpecValue == InitValue /\ [][NextValue]_vars

ValueCalled == last.op = "calculate_incentive_value" /\ last.done

\* C2: for an incentive that has a percentage, the value is cost * percentage / 100
\* when max_amount is not set and min(cost * percentage / 100, max_amount) whenever
\* max_amount is set, a cap of 0 included.
C2_PercentageValueCapped ==
    (ValueCalled /\ last.incentive.percentage # None) =>
        LET uncapped == PercentOf(last.project_cost, last.incentive.percentage[1])
        IN  last.value = IF last.incentive.max_amount = None
                         THEN uncapped
                         ELSE Min(uncapped, last.incentive.max_amount[1])

\* C3: calculate_incentive_value never returns a negative amount.
C3_ValueNeverNegative ==
    ValueCalled => last.value >= 0

\* C4: for an incentive without a percentage that has a flat per-unit amount, the
\* value is projectSize * amount whenever a project size is supplied (0 included),
\* and the flat amount (0 if unset) only when no size is supplied or no amount is set.
C4_PerUnitValue ==
    (ValueCalled /\ last.incentive.percentage = None) =>
        last.value = IF last.project_size # None /\ last.incentive.amount # None
                     THEN last.project_size[1] * last.incentive.amount[1]
                     ELSE IF last.incentive.amount # None THEN last.incentive.amount[1] ELSE 0

ProjectKeys == {"project_id", "project_type", "building_type", "state", "city",
                "utility_provider", "project_cost", "project_size",
                "system_capacity_kw", "annual_production_kwh", "square_footage",
                "baseline_energy_usage", "projected_energy_usage",
                "total_workers", "local_workers", "total_hours", "incidents",
                "near_misses"}

EmptyProject == [k \in ProjectKeys |-> None]

\* dict.get(key, default)
Get(project_data, key, default) ==
    IF project_data[key] = None THEN default ELSE project_data[key][1]

----------------------------------------------------------------------------
(* Eligibility Evaluator *)

\* One pass of the loop body of _check_eligibility: whether the criterion
\* adds one to criteria_met.  project_type is project_data['project_type'] before
\* lower(), which LowerContains applies.
CriterionCounts(criterion, project_type, project_data) ==
    IF LowerContains(criterion, "solar") /\ LowerContains(project_type, "solar")
    THEN TRUE
    ELSE IF LowerContains(criterion, "wind") /\ LowerContains(project_type, "wind")
    THEN TRUE
    ELSE IF LowerContains(criterion, "energy efficiency")
            /\ LowerContains(project_type, "efficiency")
    THEN TRUE
    ELSE IF LowerContains(criterion, "commercial")
            /\ project_data["building_type"] = Some("commercial")
    THEN TRUE
    ELSE IF LowerContains(criterion, "residential")
            /\ project_data["building_type"] = Some("residential")
    THEN TRUE
    ELSE FALSE

criteria_met(incentive, project_data) ==
    LET project_type == Get(project_data, "project_type", "")
    IN  Cardinality({i \in 1..Len(incentive.eligibility_criteria) :
            CriterionCounts(incentive.eligibility_criteria[i], project_type, project_data)})

\* _check_eligibility that also tests the start deadline, as it tests the other two.
_check_eligibility_start_deadline(incentive, project_data, current_date) ==
    IF incentive.application_deadline # None
       /\ current_date > incentive.application_deadline[1]
    THEN FALSE
    ELSE IF incentive.project_start_deadline # None
            /\ current_date > incentive.project_start_deadline[1]
    THEN FALSE
    ELSE IF incentive.project_completion_deadline # None
            /\ current_date > incentive.project_completion_deadline[1]
    THEN FALSE
    ELSE criteria_met(incentive, project_data) > 0

\* _check_eligibility as a checklist: at least half of the criteria must count.
_check_eligibility_majority(incentive, project_data, current_date) ==
    IF incentive.application_deadline # None
       /\ current_date > incentive.application_deadline[1]
    THEN FALSE
    ELSE IF incentive.project_completion_deadline # None
            /\ current_date > incentive.project_completion_deadline[1]
    THEN FALSE
    ELSE /\ criteria_met(incentive, project_data) > 0
         /\ 2 * criteria_met(incentive, project_data) >= Len(incentive.eligibility_criteria)

\* _check_eligibility with the deadline day itself closed: today >= deadline rejects.
_check_eligibility_deadline_day_closed(incentive, project_data, current_date) ==
    IF incentive.application_deadline # None
       /\ current_date >= incentive.application_deadline[1]
    THEN FALSE
    ELSE IF incentive.project_completion_deadline # None
            /\ current_date >= incentive.project_completion_deadline[1]
    THEN FALSE
    ELSE criteria_met(incentive, project_data) > 0

\* _check_eligibility requiring every criterion to count.
_check_eligibility_all(incentive, project_data, current_date) ==
    IF incentive.application_deadline # None
       /\ current_date > incentive.application_deadline[1]
    THEN FALSE
    ELSE IF incentive.project_completion_deadline # None
            /\ current_date > incentive.project_completion_deadline[1]
    THEN FALSE
    ELSE criteria_met(incentive, project_data) = Len(incentive.eligibility_criteria)

\* _check_eligibility without the application deadline test.
_check_eligibility_no_application_deadline(incentive, project_data, current_date) ==
    IF incentive.project_completion_deadline # None
       /\ current_date > incentive.project_completion_deadline[1]
    THEN FALSE
    ELSE criteria_met(incentive, project_data) > 0

_check_eligibility(incentive, project_data, current_date) ==
    IF incentive.application_deadline # None
       /\ current_date > incentive.application_deadline[1]
    THEN FALSE
    ELSE IF incentive.project_completion_deadline # None
            /\ current_date > incentive.project_completion_deadline[1]
    THEN FALSE
    ELSE criteria_met(incentive, project_data) > 0

----------------------------------------------------------------------------
(* Catalog lookup and filtering *)

\* [x for x in incentives if _check_eligibility(x, project_data)]
EligibleOf(incentives, project_data, current_date) ==
    SelectSeq(incentives, LAMBDA incentive :
        _check_eligibility(incentive, project_data, current_date))

\* table[key] if key in table, for a key given by its characters
Lookup(table, key) ==
    IF \E k \in DOMAIN table : Chars(k) = key
    THEN table[CHOOSE k \in DOMAIN table : Chars(k) = key]
    ELSE <<>>

Return(value) == [kind |-> "return", value |-> value]

Raise(exc) == [kind |-> "raise", exc |-> exc]

calculate_available_incentives(project_data, current_date) ==
    LET federal == EligibleOf(federal_incentives, project_data, current_date)
        state == project_data["state"]
        of_state ==
            IF state # None /\ state[1] \in DOMAIN state_incentives
            THEN EligibleOf(state_incentives[state[1]], project_data, current_date)
            ELSE <<>>
    IN  IF state = None
        THEN \* None has no lower(): line 646
             Raise("AttributeError")
        ELSE LET locality_key ==
                     Replace(Lower(Chars(Get(project_data, "city", ""))), " ", <<"_">>)
                     \o <<"_">> \o Lower(Chars(state[1]))
                 of_locality ==
                     EligibleOf(Lookup(local_incentives, locality_key),
                                project_data, current_date)
                 utility ==
                     Replace(Replace(Lower(Chars(Get(project_data, "utility_provider", ""))),
                                     " ", <<>>), "&", <<>>)
                 of_utility ==
                     EligibleOf(Lookup(utility_incentives, utility),
                                project_data, current_date)
             IN  Return(federal \o of_state \o of_locality \o of_utility)

----------------------------------------------------------------------------
(* The evaluator and the catalog lookup, applied once to each input *)

MaxCriteria == 2

SeqsUpTo(S, n) == UNION {[1..k -> S] : k \in 0..n}

Days == {20241231, 20250101, 20251231, 20260101, 20330101}

EligibilityCriteria ==
    {"Solar PV system installation", "Wind energy facility",
     "Energy efficiency or renewable energy project", "Commercial building",
     "Residential property", "Florida resident"}

EligibilityIncentives ==
    { IncentiveOpportunity("ELIG", "Eligibility", "grant", Some(Dollars(1000)), None, None,
                           "ALL", None, None, crit, appl, start, compl, FALSE, TRUE, <<>>) :
        crit \in SeqsUpTo(EligibilityCriteria, MaxCriteria),
        appl \in {None, Some(20241231)},
        start \in {None, Some(20241231)},
        compl \in {None, Some(20251231)} }

ProjectTypes ==
    {None, Some("residential solar installation"), Some("wind turbine retrofit"),
     Some("commercial energy efficiency upgrade"), Some("Solar Farm")}

BuildingTypes == {None, Some("commercial"), Some("residential")}

EligibilityProjects ==
    { [EmptyProject EXCEPT !["project_type"] = t, !["building_type"] = b] :
        t \in ProjectTypes, b \in BuildingTypes }

ScopeProjects ==
    { [EmptyProject EXCEPT !["project_type"] = t, !["building_type"] = b,
                           !["state"] = s, !["city"] = c, !["utility_provider"] = u] :
        t \in ProjectTypes \ {None}, b \in BuildingTypes \ {None},
        s \in {None, Some("FL"), Some("TX"), Some("LA"), Some("NY"), Some("ZZ")},
        c \in {None, Some("Miami Dade"), Some("Tampa")},
        u \in {None, Some("FPL"), Some("Florida Power & Light"), Some("TECO")} }

NoIncentive ==
    IncentiveOpportunity("", "", "grant", None, None, None, "ALL", None, None,
                         <<>>, None, None, None, FALSE, TRUE, <<>>)

InitEligibility ==
    /\ InitEngine
    /\ today \in Days
    /\ \/ last \in [op : {"_check_eligibility"}, done : {FALSE},
                    incentive : EligibilityIncentives, project_data : EligibilityProjects,
                    outcome : {Return(FALSE)}]
       \/ last \in [op : {"calculate_available_incentives"}, done : {FALSE},
                    incentive : {NoIncentive}, project_data : ScopeProjects,
                    outcome : {Return(FALSE)}]

CallCheckEligibility ==
    /\ last.op = "_check_eligibility"
    /\ ~last.done
    /\ last' = [last EXCEPT
                    !.done = TRUE,
                    !.outcome = Return(_check_eligibility(last.incentive, last.project_data,
                                                          today))]
    /\ UNCHANGED <<trackers, catalog, today, tasks>>

CallAvailableIncentives ==
    /\ last.op = "calculate_available_incentives"
    /\ ~last.done
    /\ last' = [last EXCEPT
                    !.done = TRUE,
                    !.outcome = calculate_available_incentives(last.project_data, today)]
    /\ UNCHANGED <<trackers, catalog, today, tasks>>

NextEligibility == CallCheckEligibility \/ CallAvailableIncentives

SpecEligibility == InitEligibility /\ [][NextEligibility]_vars

EligibilityChecked == last.op = "_check_eligibility" /\ last.done

IncentivesListed == last.op = "calculate_available_incentives" /\ last.done

\* Whether a deadline is set and today is past it.
Passed(deadline) == deadline # None /\ today > deadline[1]

\* The five matching rules: the text a criterion must mention and what the
\* project must then be.
MatchingRules ==
    {<<"solar", "type", "solar">>, <<"wind", "type", "wind">>,
     <<"energy efficiency", "type", "efficiency">>,
     <<"commercial", "building", "commercial">>,
     <<"residential", "building", "residential">>}

RuleMatches(rule, criterion, project_data) ==
    /\ StrIn(Chars(rule[1]), Lower(Chars(criterion)))
    /\ IF rule[2] = "type"
       THEN StrIn(Chars(rule[3]), Lower(Chars(Get(project_data, "project_type", ""))))
       ELSE project_data["building_type"] = Some(rule[3])

AnyCriterionMatches(incentive, project_data) ==
    \E i \in 1..Len(incentive.eligibility_criteria) : \E rule \in MatchingRules :
        RuleMatches(rule, incentive.eligibility_criteria[i], project_data)

\* C5: when neither the application nor the completion deadline has passed, the
\* incentive is eligible iff at least one criterion matches one of the five rules;
\* a sole criterion "Solar PV system installation" is eligible for a project type
\* containing "solar" and ineligible for "wind turbine retrofit".
C5_EligibleIffAnyCriterion ==
    (/\ EligibilityChecked
     /\ ~Passed(last.incentive.application_deadline)
     /\ ~Passed(last.incentive.project_completion_deadline)) =>
        /\ last.outcome.value = AnyCriterionMatches(last.incentive, last.project_data)
        /\ last.incentive.eligibility_criteria = <<"Solar PV system installation">> =>
              /\ last.project_data["project_type"] = Some("residential solar installation")
                    => last.outcome.value = TRUE
              /\ last.project_data["project_type"] = Some("wind turbine retrofit")
                    => last.outcome.value = FALSE

\* C5 witness: two criteria of which exactly one matches, no deadline passed, eligible.
C5_Witness ==
    /\ EligibilityChecked
    /\ ~Passed(last.incentive.application_deadline)
    /\ ~Passed(last.incentive.project_completion_deadline)
    /\ last.incentive.eligibility_criteria = <<"Florida resident", "Solar PV system installation">>
    /\ last.project_data["project_type"] = Some("residential solar installation")
    /\ last.outcome.value = TRUE

\* C6: an incentive whose application deadline is set and lies strictly before
\* today is never eligible, and never listed, whatever its criteria match.
C6_PastApplicationDeadlineIneligible ==
    /\ (EligibilityChecked /\ Passed(last.incentive.application_deadline))
          => last.outcome.value = FALSE
    /\ (IncentivesListed /\ last.outcome.kind = "return") =>
          \A i \in 1..Len(last.outcome.value) :
              ~Passed(last.outcome.value[i].application_deadline)

\* C6 witness: a criterion matches, the application deadline has passed, not eligible.
C6_Witness ==
    /\ EligibilityChecked
    /\ Passed(last.incentive.application_deadline)
    /\ AnyCriterionMatches(last.incentive, last.project_data)
    /\ last.outcome.value = FALSE

\* C7: calculate_available_incentives never raises for an unknown or unmatched
\* scope: with state, city or utility_provider absent or matching no catalog key it
\* returns, with no incentive of that scope.
C7_UnknownScopeNeverRaises ==
    IncentivesListed =>
        /\ last.outcome.kind = "return"
        /\ \A i \in 1..Len(last.outcome.value) :
              LET incentive == last.outcome.value[i]
              IN  /\ incentive.type = "state_tax_credit"
                        => last.project_data["state"] = Some(incentive.state)
                  /\ incentive.type = "utility_rebate"
                        => last.project_data["utility_provider"] = Some("FPL")

----------------------------------------------------------------------------
(* Metric Store: the three trackers *)

\* The trackers as one value: what a tracking call reads and what it leaves.
Store == [env |-> environmental_metrics, credits |-> carbon_credits,
          soc |-> social_metrics, gov |-> governance_metrics]

ESGMetric(category, metric_name, value, unit, project_id, verification_method, third_party_verified, carbon_offset_tons) ==
    [category |-> category, metric_name |-> metric_name, value |-> value, unit |-> unit,
     project_id |-> project_id, verification_method |-> verification_method,
     third_party_verified |-> third_party_verified,
     carbon_offset_tons |-> carbon_offset_tons]

\* n / d * 100 as a metric value (hundredths), the floor of n * 10000 / d
Rate100(n, d) == ((n * 100) \div d) * 100 + (((n * 100) % d) * 100) \div d

\* n / d * 200000 as a metric value (hundredths)
Rate200k(n, d) == (n * 20000000) \div d

\* d[k] = v
Put(d, k, v) == [x \in DOMAIN d \cup {k} |-> IF x = k THEN v ELSE d[x]]

Done(st, value) == [store |-> st, outcome |-> Return(value)]

Failed(st, exc) == [store |-> st, outcome |-> Raise(exc)]

track_energy_efficiency(st, project_id, building_type, square_footage, energy_usage_baseline, energy_usage_actual) ==
    IF energy_usage_baseline = 0
    THEN Failed(st, "ZeroDivisionError")
    ELSE LET efficiency_improvement ==
                 Rate100(energy_usage_baseline - energy_usage_actual, energy_usage_baseline)
             \* tons * 10000
             carbon_offset ==
                 (((energy_usage_baseline - energy_usage_actual) * square_footage) \div 1000) * 7
             metric == ESGMetric("environmental", "energy_efficiency_improvement",
                                 efficiency_improvement, "percentage", project_id,
                                 "energy_modeling_software", TRUE, Some(carbon_offset))
         IN  Done([st EXCEPT
                      !.env = Append(@, metric),
                      !.credits = IF carbon_offset > 0
                                  THEN Put(@, project_id,
                                           [tons_offset |-> carbon_offset,
                                            market_value_per_ton |-> 50,
                                            total_value |-> carbon_offset * 50,
                                            retirement_date |-> None])
                                  ELSE @],
                  metric)

\* track_renewable_energy keeping one metric per project and system type: the
\* metric recorded before is replaced.
track_renewable_energy_replacing(st, project_id, system_type, capacity_kw, annual_production_kwh) ==
    LET carbon_offset == annual_production_kwh * 7
        metric == ESGMetric("environmental", "renewable_energy_" \o system_type,
                            capacity_kw * 100, "kW_capacity", project_id,
                            "utility_interconnection_agreement", TRUE, Some(carbon_offset))
        others == SelectSeq(st.env, LAMBDA m : ~(m.project_id = project_id
                                                 /\ m.metric_name = metric.metric_name))
    IN  Done([st EXCEPT !.env = Append(others, metric)], metric)

track_renewable_energy(st, project_id, system_type, capacity_kw, annual_production_kwh) ==
    LET carbon_offset == annual_production_kwh * 7
        metric == ESGMetric("environmental", "renewable_energy_" \o system_type,
                            capacity_kw * 100, "kW_capacity", project_id,
                            "utility_interconnection_agreement", TRUE, Some(carbon_offset))
    IN  Done([st EXCEPT !.env = Append(@, metric)], metric)

track_water_efficiency(st, project_id, baseline_usage, improved_usage) ==
    IF baseline_usage = 0
    THEN Failed(st, "ZeroDivisionError")
    ELSE LET metric == ESGMetric("environmental", "water_efficiency_improvement",
                                 Rate100(baseline_usage - improved_usage, baseline_usage),
                                 "percentage", project_id, "water_meter_readings",
                                 FALSE, None)
         IN  Done([st EXCEPT !.env = Append(@, metric)], metric)

track_waste_diversion(st, project_id, total_waste, diverted_waste) ==
    IF total_waste = 0
    THEN Failed(st, "ZeroDivisionError")
    ELSE LET metric == ESGMetric("environmental", "waste_diversion_rate",
                                 Rate100(diverted_waste, total_waste),
                                 "percentage", project_id, "waste_management_receipts",
                                 TRUE, None)
         IN  Done([st EXCEPT !.env = Append(@, metric)], metric)

\* track_local_hiring keeping one local_hire_rate per project: the metric recorded
\* before for the project is dropped when the new one is appended.
track_local_hiring_latest_only(st, project_id, total_workers, local_workers) ==
    IF total_workers = 0
    THEN Failed(st, "ZeroDivisionError")
    ELSE LET metric == ESGMetric("social", "local_hire_rate",
                                 Rate100(local_workers, total_workers),
                                 "percentage", project_id, "payroll_address_verification",
                                 FALSE, None)
             others == SelectSeq(st.soc, LAMBDA m : ~(m.project_id = project_id
                                                      /\ m.metric_name = "local_hire_rate"))
         IN  Done([st EXCEPT !.soc = Append(others, metric)], metric)

track_local_hiring(st, project_id, total_workers, local_workers) ==
    IF total_workers = 0
    THEN Failed(st, "ZeroDivisionError")
    ELSE LET metric == ESGMetric("social", "local_hire_rate",
                                 Rate100(local_workers, total_workers),
                                 "percentage", project_id, "payroll_address_verification",
                                 FALSE, None)
         IN  Done([st EXCEPT !.soc = Append(@, metric)], metric)

track_diversity_hiring(st, project_id, total_workers, minority_workers, women_workers, veteran_workers) ==
    IF total_workers = 0
    THEN Failed(st, "ZeroDivisionError")
    ELSE LET metrics == <<
                 ESGMetric("social", "minority_hire_rate",
                           Rate100(minority_workers, total_workers), "percentage",
                           project_id, "self_identification_forms", FALSE, None),
                 ESGMetric("social", "women_hire_rate",
                           Rate100(women_workers, total_workers), "percentage",
                           project_id, "self_identification_forms", FALSE, None),
                 ESGMetric("social", "veteran_hire_rate",
                           Rate100(veteran_workers, total_workers), "percentage",
                           project_id, "dd214_verification", FALSE, None) >>
         IN  Done([st EXCEPT !.soc = @ \o metrics], metrics)

track_apprenticeship_programs(st, project_id, total_hours, apprentice_hours) ==
    IF total_hours = 0
    THEN Failed(st, "ZeroDivisionError")
    ELSE LET metric == ESGMetric("social", "apprenticeship_rate",
                                 Rate100(apprentice_hours, total_hours), "percentage",
                                 project_id, "union_training_records", FALSE, None)
         IN  Done([st EXCEPT !.soc = Append(@, metric)], metric)

track_safety_metrics(st, project_id, total_hours, incidents, near_misses) ==
    IF total_hours = 0
    THEN Failed(st, "ZeroDivisionError")
    ELSE LET metrics == <<
                 ESGMetric("social", "osha_incident_rate", Rate200k(incidents, total_hours),
                           "incidents_per_200k_hours", project_id, "osha_logs", FALSE, None),
                 ESGMetric("social", "near_miss_rate", Rate200k(near_misses, total_hours),
                           "near_misses_per_200k_hours", project_id,
                           "safety_reporting_system", FALSE, None) >>
         IN  Done([st EXCEPT !.soc = @ \o metrics], metrics)

track_compliance_scores(st, project_id, state, permit_compliance, safety_compliance, environmental_compliance) ==
    LET compliance_types == << <<"permit_compliance", permit_compliance>>,
                               <<"safety_compliance", safety_compliance>>,
                               <<"environmental_compliance", environmental_compliance>> >>
        metrics == [i \in 1..3 |->
                       ESGMetric("governance", compliance_types[i][1],
                                 compliance_types[i][2] * 100, "percentage", project_id,
                                 "regulatory_audit", FALSE, None)]
    IN  Done([st EXCEPT !.gov = @ \o metrics], metrics)

track_certification_status(st, project_id, certifications) ==
    LET metric == ESGMetric("governance", "certification_count", Len(certifications) * 100,
                            "count", project_id, "certification_body_verification",
                            FALSE, None)
    IN  Done([st EXCEPT !.gov = Append(@, metric)], metric)

----------------------------------------------------------------------------
(* Score Composer.  A category score is in 1/10000 points, the overall score *)
(* in 1/1000000 points, the peer percentile in 1/10000000 points.            *)

Points(n) == n * 10000

RECURSIVE SumSeq(_)
SumSeq(s) == IF s = <<>> THEN 0 ELSE Head(s) + SumSeq(Tail(s))

\* The loop body with the verification bonus inside the name tests: a verified
\* metric of a name that is not scored gets no bonus.
EnvironmentalGain_bonus_for_scored_names(metric) ==
    IF metric.metric_name = "energy_efficiency_improvement"
    THEN Min(Points(20), metric.value * 50)
         + (IF metric.third_party_verified THEN Points(2) ELSE 0)
    ELSE IF Contains(metric.metric_name, "renewable_energy")
    THEN Points(15) + (IF metric.third_party_verified THEN Points(2) ELSE 0)
    ELSE IF metric.metric_name = "water_efficiency_improvement"
    THEN Min(Points(10), metric.value * 30)
         + (IF metric.third_party_verified THEN Points(2) ELSE 0)
    ELSE IF metric.metric_name = "waste_diversion_rate"
    THEN Min(Points(15), metric.value * 20)
         + (IF metric.third_party_verified THEN Points(2) ELSE 0)
    ELSE 0

\* What one pass of the loop of _calculate_environmental_score adds.
EnvironmentalGain(metric) ==
    (IF metric.metric_name = "energy_efficiency_improvement"
     THEN Min(Points(20), metric.value * 50)
     ELSE IF Contains(metric.metric_name, "renewable_energy")
     THEN Points(15)
     ELSE IF metric.metric_name = "water_efficiency_improvement"
     THEN Min(Points(10), metric.value * 30)
     ELSE IF metric.metric_name = "waste_diversion_rate"
     THEN Min(Points(15), metric.value * 20)
     ELSE 0)
    + (IF metric.third_party_verified THEN Points(2) ELSE 0)

\* _calculate_environmental_score with nothing scored for a project without
\* environmental metrics.
_calculate_environmental_score_from_zero(metrics) ==
    IF metrics = <<>>
    THEN 0
    ELSE Min(Points(100),
             Points(50) + SumSeq([i \in 1..Len(metrics) |-> EnvironmentalGain(metrics[i])]))

_calculate_environmental_score(metrics) ==
    IF metrics = <<>>
    THEN Points(50)
    ELSE Min(Points(100),
             Points(50) + SumSeq([i \in 1..Len(metrics) |-> EnvironmentalGain(metrics[i])]))

\* The loop body with independent tests: local_hire_rate, which contains hire_rate,
\* is scored by both hiring rules.
SocialGain_independent_tests(metric) ==
    (IF metric.metric_name = "local_hire_rate"
     THEN Min(Points(15), metric.value * 30) ELSE 0)
    + (IF Contains(metric.metric_name, "hire_rate")
       THEN Min(Points(10), metric.value * 20) ELSE 0)
    + (IF metric.metric_name = "apprenticeship_rate"
       THEN Min(Points(10), metric.value * 40) ELSE 0)
    + (IF metric.metric_name = "osha_incident_rate"
       THEN (IF metric.value < 200 THEN Points(15)
             ELSE IF metric.value < 400 THEN Points(5)
             ELSE 0)
       ELSE 0)

\* What one pass of the loop of _calculate_social_score adds.
SocialGain(metric) ==
    IF metric.metric_name = "local_hire_rate"
    THEN Min(Points(15), metric.value * 30)
    ELSE IF Contains(metric.metric_name, "hire_rate")
    THEN Min(Points(10), metric.value * 20)
    ELSE IF metric.metric_name = "apprenticeship_rate"
    THEN Min(Points(10), metric.value * 40)
    ELSE IF metric.metric_name = "osha_incident_rate"
    THEN (IF metric.value < 200 THEN Points(15)
          ELSE IF metric.value < 400 THEN Points(5)
          ELSE 0)
    ELSE 0

_calculate_social_score(metrics) ==
    IF metrics = <<>>
    THEN Points(50)
    ELSE Min(Points(100),
             Points(50) + SumSeq([i \in 1..Len(metrics) |-> SocialGain(metrics[i])]))

GovernanceGain(metric) ==
    IF Contains(metric.metric_name, "compliance")
    THEN Min(Points(15), metric.value * 15)
    ELSE IF metric.metric_name = "certification_count"
    THEN Min(Points(10), metric.value * 300)
    ELSE 0

_calculate_governance_score(metrics) ==
    IF metrics = <<>>
    THEN Points(50)
    ELSE Min(Points(100),
             Points(50) + SumSeq([i \in 1..Len(metrics) |-> GovernanceGain(metrics[i])]))

\* The selection that does not look at the project: every metric of the tracker.
MetricsFor_all(metrics, project_id) == metrics

\* [m for m in metrics if m.project_id == project_id]
MetricsFor(metrics, project_id) ==
    SelectSeq(metrics, LAMBDA m : m.project_id = project_id)

\* The tier with strict thresholds: a score on a threshold falls in the tier below.
certification_level_exclusive(overall_score) ==
    IF overall_score > 90 * 1000000 THEN "Platinum"
    ELSE IF overall_score > 80 * 1000000 THEN "Gold"
    ELSE IF overall_score > 70 * 1000000 THEN "Silver"
    ELSE IF overall_score > 60 * 1000000 THEN "Bronze"
    ELSE "Standard"

\* The certification level of an overall score (in 1/1000000 points): lines 736-746.
certification_level(overall_score) ==
    IF overall_score >= 90 * 1000000 THEN "Platinum"
    ELSE IF overall_score >= 80 * 1000000 THEN "Gold"
    ELSE IF overall_score >= 70 * 1000000 THEN "Silver"
    ELSE IF overall_score >= 60 * 1000000 THEN "Bronze"
    ELSE "Standard"

\* calculate_esg_score with the overall score clamped to [0, 100].
calculate_esg_score_clamped(st, project_id) ==
    Let(_calculate_environmental_score(MetricsFor(st.env, project_id)), LAMBDA env_score :
    Let(_calculate_social_score(MetricsFor(st.soc, project_id)), LAMBDA social_score :
    Let(_calculate_governance_score(MetricsFor(st.gov, project_id)), LAMBDA gov_score :
    Let(Max(0, Min(100 * 1000000, env_score * 40 + social_score * 35 + gov_score * 25)),
        LAMBDA overall_score :
        LET \* min(95, max(5, overall + overall * 0.1)); a score that is not positive
            \* is below 5 whatever its size, and is not multiplied
            peer_percentile ==
                IF overall_score <= 0
                THEN 5 * 10000000
                ELSE Min(95 * 10000000, Max(5 * 10000000, overall_score * 11))
            cert_level == certification_level(overall_score)
        IN  [environmental_score |-> env_score, social_score |-> social_score,
             governance_score |-> gov_score, overall_score |-> overall_score,
             peer_percentile |-> peer_percentile, certification_level |-> cert_level]))))

calculate_esg_score(st, project_id) ==
    Let(_calculate_environmental_score(MetricsFor(st.env, project_id)), LAMBDA env_score :
    Let(_calculate_social_score(MetricsFor(st.soc, project_id)), LAMBDA social_score :
    Let(_calculate_governance_score(MetricsFor(st.gov, project_id)), LAMBDA gov_score :
    Let(env_score * 40 + social_score * 35 + gov_score * 25, LAMBDA overall_score :
        LET \* min(95, max(5, overall + overall * 0.1)); a score that is not positive
            \* is below 5 whatever its size, and is not multiplied
            peer_percentile ==
                IF overall_score <= 0
                THEN 5 * 10000000
                ELSE Min(95 * 10000000, Max(5 * 10000000, overall_score * 11))
            cert_level == certification_level(overall_score)
        IN  [environmental_score |-> env_score, social_score |-> social_score,
             governance_score |-> gov_score, overall_score |-> overall_score,
             peer_percentile |-> peer_percentile, certification_level |-> cert_level]))))

----------------------------------------------------------------------------
(* The trackers and the score composer as a state machine *)

MaxMetrics == 3

TotalMetrics ==
    Len(environmental_metrics) + Len(social_metrics) + Len(governance_metrics)

\* The state a call leaves: the store it returns and the record of the call.
Leaves(r, op, project_id) ==
    /\ environmental_metrics' = r.store.env
    /\ carbon_credits' = r.store.credits
    /\ social_metrics' = r.store.soc
    /\ governance_metrics' = r.store.gov
    /\ last' = [op |-> op, project_id |-> project_id, outcome |-> r.outcome]
    /\ UNCHANGED <<catalog, today, tasks>>

ScoreProjects == {Some("P1"), Some("P2")}

\* <<baseline, actual>>: a saving, a usage four times the baseline, no baseline
EnergyUsages == {<<100000, 70000>>, <<1000, 4000>>, <<0, 0>>}

WaterUsages == {<<100, 50>>, <<0, 0>>}

WasteAmounts == {<<100, 75>>, <<0, 0>>}

\* <<total_workers, local_workers>>
LocalHiring == {<<10, 8>>, <<0, 0>>}

\* <<total_workers, minority_workers, women_workers, veteran_workers>>
DiversityHiring == {<<10, 5, 3, 1>>, <<0, 0, 0, 0>>}

\* <<total_hours, apprentice_hours>>
ApprenticeHours == {<<2000, 400>>, <<0, 0>>}

\* <<total_hours, incidents, near_misses>>
SafetyRecords == {<<2000, 0, 2>>, <<200000, 3, 2>>, <<0, 0, 0>>}

ComplianceScores == {<<95, 100, 90>>}

CertificationLists == {<<"LEED">>, <<"LEED", "Energy Star", "WELL", "BREEAM">>}

TrackEnergyEfficiency ==
    /\ TotalMetrics + 1 <= MaxMetrics
    /\ \E project_id \in ScoreProjects, u \in EnergyUsages :
          Leaves(track_energy_efficiency(Store, project_id, "commercial", 5000, u[1], u[2]),
                 "track_energy_efficiency", project_id)

TrackRenewableEnergy ==
    /\ TotalMetrics + 1 <= MaxMetrics
    /\ \E project_id \in ScoreProjects :
          Leaves(track_renewable_energy(Store, project_id, "solar_pv", 10, 15000),
                 "track_renewable_energy", project_id)

TrackWaterEfficiency ==
    /\ TotalMetrics + 1 <= MaxMetrics
    /\ \E project_id \in ScoreProjects, u \in WaterUsages :
          Leaves(track_water_efficiency(Store, project_id, u[1], u[2]),
                 "track_water_efficiency", project_id)

TrackWasteDiversion ==
    /\ TotalMetrics + 1 <= MaxMetrics
    /\ \E project_id \in ScoreProjects, w \in WasteAmounts :
          Leaves(track_waste_diversion(Store, project_id, w[1], w[2]),
                 "track_waste_diversion", project_id)

TrackLocalHiring ==
    /\ TotalMetrics + 1 <= MaxMetrics
    /\ \E project_id \in ScoreProjects, h \in LocalHiring :
          Leaves(track_local_hiring(Store, project_id, h[1], h[2]),
                 "track_local_hiring", project_id)

TrackDiversityHiring ==
    /\ TotalMetrics + 3 <= MaxMetrics
    /\ \E project_id \in ScoreProjects, h \in DiversityHiring :
          Leaves(track_diversity_hiring(Store, project_id, h[1], h[2], h[3], h[4]),
                 "track_diversity_hiring", project_id)

TrackApprenticeshipPrograms ==
    /\ TotalMetrics + 1 <= MaxMetrics
    /\ \E project_id \in ScoreProjects, h \in ApprenticeHours :
          Leaves(track_apprenticeship_programs(Store, project_id, h[1], h[2]),
                 "track_apprenticeship_programs", project_id)

TrackSafetyMetrics ==
    /\ TotalMetrics + 2 <= MaxMetrics
    /\ \E project_id \in ScoreProjects, s \in SafetyRecords :
          Leaves(track_safety_metrics(Store, project_id, s[1], s[2], s[3]),
                 "track_safety_metrics", project_id)

TrackComplianceScores ==
    /\ TotalMetrics + 3 <= MaxMetrics
    /\ \E project_id \in ScoreProjects, c \in ComplianceScores :
          Leaves(track_compliance_scores(Store, project_id, "FL", c[1], c[2], c[3]),
                 "track_compliance_scores", project_id)

TrackCertificationStatus ==
    /\ TotalMetrics + 1 <= MaxMetrics
    /\ \E project_id \in ScoreProjects, c \in CertificationLists :
          Leaves(track_certification_status(Store, project_id, c),
                 "track_certification_status", project_id)

CalculateEsgScore ==
    \E project_id \in ScoreProjects :
        Leaves(Done(Store, calculate_esg_score(Store, project_id)),
               "calculate_esg_score", project_id)

InitScore ==
    /\ InitEngine
    /\ today = 20240101
    /\ last = [op |-> "none", project_id |-> None, outcome |-> Return(None)]

NextScore ==
    \/ TrackEnergyEfficiency
    \/ TrackRenewableEnergy
    \/ TrackWaterEfficiency
    \/ TrackWasteDiversion
    \/ TrackLocalHiring
    \/ TrackDiversityHiring
    \/ TrackApprenticeshipPrograms
    \/ TrackSafetyMetrics
    \/ TrackComplianceScores
    \/ TrackCertificationStatus
    \/ CalculateEsgScore

SpecScore == InitScore /\ [][NextScore]_vars

Scored == last.op = "calculate_esg_score"

InRange(x, lo, hi) == lo <= x /\ x <= hi

\* C1: for every metric log, negative metric values included, the environmental,
\* social and governance scores are each in [0,100] and the overall score is in [0,100].
C1_ScoresInRange ==
    Scored =>
        /\ InRange(last.outcome.value.environmental_score, 0, Points(100))
        /\ InRange(last.outcome.value.social_score, 0, Points(100))
        /\ InRange(last.outcome.value.governance_score, 0, Points(100))
        /\ InRange(last.outcome.value.overall_score, 0, 100 * 1000000)

----------------------------------------------------------------------------
(* Integration engine *)

_track_project_metrics(st, project_id, project_data) ==
    LET project_type == Get(project_data, "project_type", "")
    IN
    Let(IF LowerContains(project_type, "solar")
        THEN track_renewable_energy(st, project_id, "solar_pv",
                                    Get(project_data, "system_capacity_kw", 10),
                                    Get(project_data, "annual_production_kwh", 15000))
        ELSE Done(st, None),
        LAMBDA renewable :
    Let(IF LowerContains(project_type, "energy efficiency")
        THEN track_energy_efficiency(renewable.store, project_id,
                                     Get(project_data, "building_type", "commercial"),
                                     Get(project_data, "square_footage", 5000),
                                     Get(project_data, "baseline_energy_usage", 100000),
                                     Get(project_data, "projected_energy_usage", 70000))
        ELSE Done(renewable.store, None),
        LAMBDA efficiency :
    IF efficiency.outcome.kind = "raise"
    THEN efficiency
    ELSE
    Let(track_local_hiring(efficiency.store, project_id,
                           Get(project_data, "total_workers", 10),
                           Get(project_data, "local_workers", 8)),
        LAMBDA hiring :
    IF hiring.outcome.kind = "raise"
    THEN hiring
    ELSE
    Let(track_safety_metrics(hiring.store, project_id,
                             Get(project_data, "total_hours", 2000),
                             Get(project_data, "incidents", 0),
                             Get(project_data, "near_misses", 2)),
        LAMBDA safety :
    IF safety.outcome.kind = "raise"
    THEN safety
    ELSE Done(safety.store, None)))))

RECURSIVE GCD(_, _)
GCD(a, b) == IF b = 0 THEN a ELSE GCD(b, a % b)

Abs(n) == IF n < 0 THEN 0 - n ELSE n

\* The quotient n / d, d > 0, in lowest terms.
Quotient(n, d) ==
    LET g == GCD(Abs(n), d)
    IN  <<n \div g, d \div g>>

\* total_incentive_value / project_cost, without the factor 100
roi_improvement_as_ratio(total_incentive_value, project_cost) ==
    IF project_cost > 0
    THEN Quotient(total_incentive_value, project_cost)
    ELSE <<0, 1>>

\* (total_incentive_value / project_cost) * 100 if project_cost > 0 else 0
roi_improvement(total_incentive_value, project_cost) ==
    IF project_cost > 0
    THEN Quotient(total_incentive_value * 100, project_cost)
    ELSE <<0, 1>>

\* The report when incentives do not stack: only the largest value is counted.
Report_exclusive(project_id, esg_score, incentives, values, project_cost) ==
    LET incentive_summary ==
            [i \in 1..Len(incentives) |->
                [name |-> incentives[i].name,
                 type |-> incentives[i].type,
                 value |-> values[i],
                 requires_pre_approval |-> incentives[i].requires_pre_approval,
                 application_deadline |-> incentives[i].application_deadline]]
    IN
    Let(CHOOSE v \in {values[i] : i \in 1..Len(values)} \cup {0} :
            \A i \in 1..Len(values) : v >= values[i],
        LAMBDA total_incentive_value :
        [project_id |-> project_id,
         esg_score |-> [environmental |-> esg_score.environmental_score,
                        social |-> esg_score.social_score,
                        governance |-> esg_score.governance_score,
                        overall |-> esg_score.overall_score,
                        certification_level |-> esg_score.certification_level,
                        peer_percentile |-> esg_score.peer_percentile],
         available_incentives |-> incentive_summary,
         total_incentive_value |-> total_incentive_value,
         net_project_cost |-> project_cost - total_incentive_value,
         roi_improvement |-> roi_improvement(total_incentive_value, project_cost)])

\* The report of lines 866-880.
Report(project_id, esg_score, incentives, values, project_cost) ==
    LET incentive_summary ==
            [i \in 1..Len(incentives) |->
                [name |-> incentives[i].name,
                 type |-> incentives[i].type,
                 value |-> values[i],
                 requires_pre_approval |-> incentives[i].requires_pre_approval,
                 application_deadline |-> incentives[i].application_deadline]]
    IN
    Let(SumSeq(values), LAMBDA total_incentive_value :
        [project_id |-> project_id,
         esg_score |-> [environmental |-> esg_score.environmental_score,
                        social |-> esg_score.social_score,
                        governance |-> esg_score.governance_score,
                        overall |-> esg_score.overall_score,
                        certification_level |-> esg_score.certification_level,
                        peer_percentile |-> esg_score.peer_percentile],
         available_incentives |-> incentive_summary,
         total_incentive_value |-> total_incentive_value,
         net_project_cost |-> project_cost - total_incentive_value,
         roi_improvement |-> roi_improvement(total_incentive_value, project_cost)])

\* process_project_esg_incentives from the return of _track_project_metrics on:
\* lines 838-880, on the trackers st.
report_after_tracking(st, project_data, current_date) ==
    LET project_id == project_data["project_id"]
    IN
    Let(calculate_esg_score(st, project_id), LAMBDA esg_score :
    Let(calculate_available_incentives(project_data, current_date),
        LAMBDA available_incentives :
    IF available_incentives.kind = "raise"
    THEN Failed(st, available_incentives.exc)
    ELSE
    LET project_cost == Get(project_data, "project_cost", 0)
        project_size == project_data["project_size"]
    IN
    Let([i \in 1..Len(available_incentives.value) |->
            calculate_incentive_value(available_incentives.value[i],
                                      project_cost, project_size)],
        LAMBDA values :
    Done(st,
         Report(project_id, esg_score, available_incentives.value, values,
                project_cost)))))

\* process_project_esg_incentives with the report made first: the score is
\* computed from the trackers as the call found them, the metrics are recorded after.
process_project_esg_incentives_score_first(st, project_data, current_date) ==
    Let(report_after_tracking(st, project_data, current_date), LAMBDA reported :
    Let(_track_project_metrics(st, project_data["project_id"], project_data),
        LAMBDA tracked :
    IF tracked.outcome.kind = "raise"
    THEN tracked
    ELSE [store |-> tracked.store, outcome |-> reported.outcome]))

process_project_esg_incentives(st, project_data, current_date) ==
    Let(_track_project_metrics(st, project_data["project_id"], project_data),
        LAMBDA tracked :
    IF tracked.outcome.kind = "raise"
    THEN tracked
    ELSE report_after_tracking(tracked.store, project_data, current_date))

----------------------------------------------------------------------------
(* The integration engine as a state machine *)

MaxStored == 10

\* The residential project of main(), lines 982-998.
ResidentialProject ==
    [EmptyProject EXCEPT
        !["project_id"] = Some("RES_2024_TAMPA_001"),
        !["project_type"] = Some("residential solar installation"),
        !["building_type"] = Some("residential"),
        !["project_cost"] = Some(Dollars(25000)),
        !["system_capacity_kw"] = Some(8),
        !["annual_production_kwh"] = Some(12000),
        !["state"] = Some("FL"),
        !["city"] = Some("Tampa"),
        !["utility_provider"] = Some("TECO"),
        !["total_workers"] = Some(4),
        !["local_workers"] = Some(4),
        !["total_hours"] = Some(200),
        !["incidents"] = Some(0),
        !["near_misses"] = Some(0),
        !["project_size"] = Some(8)]

\* The end-to-end example with no key but those it names.
EndToEndProject ==
    [EmptyProject EXCEPT
        !["project_type"] = Some("residential solar installation"),
        !["building_type"] = Some("residential"),
        !["state"] = Some("FL"),
        !["project_cost"] = Some(Dollars(25000)),
        !["project_size"] = Some(8),
        !["utility_provider"] = Some("TECO")]

\* The project inputs process is called with: the residential project with its
\* identifier, type, building, state and cost varied, and with no workers, no
\* hours or no baseline usage, and with a capitalised type.
ProcessProjects ==
    { [ResidentialProject EXCEPT !["project_id"] = id, !["project_type"] = t,
                                 !["state"] = s, !["project_cost"] = c] :
        id \in {None, Some("RES_2024_TAMPA_001")},
        t \in {Some("residential solar installation"),
               Some("commercial energy efficiency upgrade"),
               Some("wind turbine retrofit")},
        s \in {None, Some("FL"), Some("TX")},
        c \in {None, Some(0), Some(Dollars(0 - 1000)), Some(Dollars(25000))} }
    \cup
    { [ResidentialProject EXCEPT !["project_id"] = Some("STORM_2024_MIAMI_001"),
                                 !["building_type"] = Some("commercial")],
      EndToEndProject,
      [ResidentialProject EXCEPT !["city"] = Some("Miami Dade"),
                                 !["utility_provider"] = Some("FPL")],
      [ResidentialProject EXCEPT !["project_type"] = Some("Solar Farm")],
      [ResidentialProject EXCEPT !["total_workers"] = Some(0)],
      [ResidentialProject EXCEPT !["total_hours"] = Some(0)],
      [ResidentialProject EXCEPT !["project_type"] =
                                     Some("commercial energy efficiency upgrade"),
                                 !["baseline_energy_usage"] = Some(0)] }

Init ==
    /\ InitEngine
    /\ today = 20241231
    /\ last = [op |-> "none", project_id |-> None, outcome |-> Return(None)]

AdvanceDay ==
    /\ \E d \in Days : d > today /\ today' = d
    /\ UNCHANGED <<trackers, catalog, tasks, last>>

\* One call of process_project_esg_incentives, for a project input of `projects`.
ProcessOf(projects) ==
    /\ TotalMetrics + 5 <= MaxStored
    /\ \E project_data \in projects :
          \E r \in {process_project_esg_incentives(Store, project_data, today)} :
              /\ environmental_metrics' = r.store.env
              /\ carbon_credits' = r.store.credits
              /\ social_metrics' = r.store.soc
              /\ governance_metrics' = r.store.gov
              /\ last' = [op |-> "process_project_esg_incentives",
                          project_data |-> project_data, current_date |-> today,
                          outcome |-> r.outcome]
              /\ UNCHANGED <<catalog, today, tasks>>

Process == ProcessOf(ProcessProjects)

\* calculate_esg_score that keeps what it computed: the overall score is recorded
\* as a governance metric of the project.
Score_recording ==
    \E project_id \in {None, Some("RES_2024_TAMPA_001"), Some("STORM_2024_MIAMI_001")} :
        \E esg_score \in {calculate_esg_score(Store, project_id)} :
            Leaves(Done([Store EXCEPT
                            !.gov = Append(@, ESGMetric("governance", "certification_count",
                                                        esg_score.overall_score, "count",
                                                        project_id, "esg_scoring_engine",
                                                        FALSE, None))],
                        esg_score),
                   "calculate_esg_score", project_id)

\* calculate_esg_score as a draining read: the metrics it scored are taken out of
\* the trackers.
Score_draining ==
    \E project_id \in {None, Some("RES_2024_TAMPA_001"), Some("STORM_2024_MIAMI_001")} :
        Leaves(Done([Store EXCEPT
                        !.env = SelectSeq(@, LAMBDA m : m.project_id # project_id),
                        !.soc = SelectSeq(@, LAMBDA m : m.project_id # project_id),
                        !.gov = SelectSeq(@, LAMBDA m : m.project_id # project_id)],
                    calculate_esg_score(Store, project_id)),
               "calculate_esg_score", project_id)

Score ==
    \E project_id \in {None, Some("RES_2024_TAMPA_001"), Some("STORM_2024_MIAMI_001")} :
        Leaves(Done(Store, calculate_esg_score(Store, project_id)),
               "calculate_esg_score", project_id)

Next == Process \/ Score \/ AdvanceDay

Spec == Init /\ [][Next]_vars

Processed == last.op = "process_project_esg_incentives"

Reported == Processed /\ last.outcome.kind = "return"

\* C8: process_project_esg_incentives always ends by returning, never by an
\* unhandled exception, whatever the project input (no workers, no hours, no
\* baseline usage included).
C8_ProcessNeverRaises ==
    Processed => last.outcome.kind = "return"

AllMetrics == environmental_metrics \o social_metrics \o governance_metrics

\* C9: a project input with no project_id is rejected with a ValidationError: no
\* metric is recorded for it and no report is returned.
C9_MissingProjectIdRejected ==
    /\ (Processed /\ last.project_data["project_id"] = None)
          => last.outcome = Raise("ValidationError")
    /\ \A i \in 1..Len(AllMetrics) : AllMetrics[i].project_id # None

ReportedCost == Get(last.project_data, "project_cost", 0)

NetCostHolds ==
    last.outcome.value.net_project_cost
        = ReportedCost - last.outcome.value.total_incentive_value

\* roi = total / cost * 100, for a roi given as a quotient in lowest terms (its
\* denominator then divides the cost)
RoiIsPercentage ==
    /\ ReportedCost % last.outcome.value.roi_improvement[2] = 0
    /\ last.outcome.value.roi_improvement[1]
           * (ReportedCost \div last.outcome.value.roi_improvement[2])
        = last.outcome.value.total_incentive_value * 100

----------------------------------------------------------------------------
(* Properties of the report *)

\* The sum of calculate_incentive_value over the first n of `incentives`.
RECURSIVE ValueSum(_, _, _, _)
ValueSum(incentives, project_cost, project_size, n) ==
    IF n = 0
    THEN 0
    ELSE ValueSum(incentives, project_cost, project_size, n - 1)
         + calculate_incentive_value(incentives[n], project_cost, project_size)

\* C11: in every report the incentives listed are all those that
\* calculate_available_incentives returns for the project, each with its
\* calculate_incentive_value, and total_incentive_value is the sum of these values,
\* whatever the stacking_allowed flags.
C11_TotalIsSumOfAvailable ==
    Reported =>
        \A available \in {calculate_available_incentives(last.project_data,
                                                          last.current_date).value} :
            /\ Len(last.outcome.value.available_incentives) = Len(available)
            /\ \A i \in 1..Len(available) :
                  /\ last.outcome.value.available_incentives[i].name = available[i].name
                  /\ last.outcome.value.available_incentives[i].value
                        = calculate_incentive_value(available[i], ReportedCost,
                                                    last.project_data["project_size"])
            /\ last.outcome.value.total_incentive_value
                  = ValueSum(available, ReportedCost, last.project_data["project_size"],
                             Len(available))

\* C11 witness: a report that lists four incentives, three of them with a value
\* (7500, 8000 and 0.24), and totals 15500.24.
C11_Witness ==
    /\ Reported
    /\ Len(last.outcome.value.available_incentives) = 4
    /\ Cardinality({i \in 1..4 : last.outcome.value.available_incentives[i].value > 0}) = 3
    /\ last.outcome.value.total_incentive_value = Dollars(15500) + 24

\* C17: on a date up to 2032-12-31, process for a residential solar installation
\* in FL with cost 25000, size 8 and utility TECO (the residential example of main,
\* or the input with these keys only; the engine fresh or not) returns a report
\* that lists the Solar Investment Tax Credit with value 7500, with
\* total_incentive_value >= 7500 and net_project_cost <= 17500.
C17_EndToEndSolar ==
    (/\ Processed
     /\ last.project_data \in {ResidentialProject, EndToEndProject}
     /\ last.current_date <= 20321231) =>
        /\ last.outcome.kind = "return"
        /\ \E i \in 1..Len(last.outcome.value.available_incentives) :
              /\ last.outcome.value.available_incentives[i].name
                    = "Solar Investment Tax Credit"
              /\ last.outcome.value.available_incentives[i].type = "federal_tax_credit"
              /\ last.outcome.value.available_incentives[i].value = Dollars(7500)
        /\ last.outcome.value.total_incentive_value >= Dollars(7500)
        /\ last.outcome.value.net_project_cost <= Dollars(17500)

\* C17 witness: the report for the input with the example's keys only, on the
\* first engine call, made on 2024-12-31.
C17_Witness ==
    /\ Reported
    /\ last.project_data = EndToEndProject
    /\ last.current_date = 20241231
    /\ Len(social_metrics) = 3
    /\ last.outcome.value.available_incentives[1].name = "Solar Investment Tax Credit"
    /\ last.outcome.value.available_incentives[1].value = Dollars(7500)
    /\ last.outcome.value.total_incentive_value = Dollars(7500)
    /\ last.outcome.value.net_project_cost = Dollars(17500)

----------------------------------------------------------------------------
(* Scoring twice *)

\* The project inputs of the specifications that run process next to other calls.
SharedProjects ==
    { ResidentialProject,
      [ResidentialProject EXCEPT !["project_id"] = Some("STORM_2024_MIAMI_001"),
                                 !["project_type"] =
                                     Some("commercial energy efficiency upgrade"),
                                 !["building_type"] = Some("commercial")] }

\* calculate_esg_score called again for the project of the last scoring call, with
\* no tracking call in between; the outcome of the call before is kept next to it.
ScoreAgain ==
    /\ last.op \in {"calculate_esg_score", "calculate_esg_score again"}
    /\ \E r \in {Done(Store, calculate_esg_score(Store, last.project_id))} :
          /\ environmental_metrics' = r.store.env
          /\ carbon_credits' = r.store.credits
          /\ social_metrics' = r.store.soc
          /\ governance_metrics' = r.store.gov
          /\ last' = [op |-> "calculate_esg_score again", project_id |-> last.project_id,
                      previous |-> last.outcome, outcome |-> r.outcome]
    /\ UNCHANGED <<catalog, today, tasks>>

NextRepeat == ProcessOf(SharedProjects) \/ Score \/ AdvanceDay \/ ScoreAgain

SpecRepeat == Init /\ [][NextRepeat]_vars

ScoredAgain == last.op = "calculate_esg_score again"

\* C12: a second calculate_esg_score for the same project_id, with no metric
\* recorded since the first, returns the same environmental, social, governance and
\* overall scores, peer percentile and certification level as the first.
C12_ScoreTwiceIdentical ==
    ScoredAgain =>
        /\ last.outcome.kind = "return"
        /\ last.previous.kind = "return"
        /\ \A field \in {"environmental_score", "social_score", "governance_score",
                          "overall_score", "peer_percentile", "certification_level"} :
              last.outcome.value[field] = last.previous.value[field]

\* C12 witness: a second score, on a later day than the engine started, of a
\* project whose metrics moved its scores off the baseline.
C12_Witness ==
    /\ ScoredAgain
    /\ today > 20241231
    /\ last.outcome.value.environmental_score > Points(50)
    /\ last.outcome.value.social_score > Points(50)
    /\ last.outcome.value.environmental_score = last.previous.value.environmental_score

----------------------------------------------------------------------------
(* The metric store under every operation *)

NextStore == NextScore \/ ProcessOf(SharedProjects)

SpecStore == InitScore /\ [][NextStore]_vars

IsPrefix(s, t) == Len(s) <= Len(t) /\ SubSeq(t, 1, Len(s)) = s

StoreProjects ==
    ScoreProjects \cup {Some("RES_2024_TAMPA_001"), Some("STORM_2024_MIAMI_001"), None}

\* C13: every step of every operation leaves each tracker's metric list with the
\* list before the step as a prefix (nothing removed, reordered or changed), and so
\* the metrics selected for a project_id keep their order of insertion.
C13_AppendOnly ==
    [][/\ IsPrefix(environmental_metrics, environmental_metrics')
       /\ IsPrefix(social_metrics, social_metrics')
       /\ IsPrefix(governance_metrics, governance_metrics')
       /\ \A project_id \in StoreProjects :
             /\ IsPrefix(MetricsFor(environmental_metrics, project_id),
                         MetricsFor(environmental_metrics', project_id))
             /\ IsPrefix(MetricsFor(social_metrics, project_id),
                         MetricsFor(social_metrics', project_id))
             /\ IsPrefix(MetricsFor(governance_metrics, project_id),
                         MetricsFor(governance_metrics', project_id))]_vars

\* C13 witness: social metrics recorded for P1, for P2, for P1 again and then by
\* process for another project; P1's are the first and the third, in that order,
\* and a project never recorded has none.
C13_Witness ==
    /\ Len(social_metrics) > 3
    /\ social_metrics[1].project_id = Some("P1")
    /\ social_metrics[2].project_id = Some("P2")
    /\ social_metrics[3].project_id = Some("P1")
    /\ social_metrics[4].project_id = Some("RES_2024_TAMPA_001")
    /\ MetricsFor(social_metrics, Some("P1")) = <<social_metrics[1], social_metrics[3]>>
    /\ MetricsFor(social_metrics, None) = <<>>

\* The trackers as a step leaves them.
StoreAfter == [env |-> environmental_metrics', credits |-> carbon_credits',
               soc |-> social_metrics', gov |-> governance_metrics']

\* The project a step recorded metrics for (the step is a tracking call or process).
RecordedProject ==
    IF last'.op = "process_project_esg_incentives"
    THEN last'.project_data["project_id"]
    ELSE last'.project_id

ScoreFields ==
    {"environmental_score", "social_score", "governance_score", "overall_score",
     "certification_level"}

\* C19: a tracking call or a process call for one project leaves the environmental,
\* social, governance and overall scores and the certification level of every other
\* project as they were.
C19_NoCrossProjectInteraction ==
    [][last'.op # "calculate_esg_score" =>
          \A B \in StoreProjects \ {RecordedProject} :
              \A before \in {calculate_esg_score(Store, B)} :
                  \A after \in {calculate_esg_score(StoreAfter, B)} :
                      \A field \in ScoreFields : after[field] = before[field]]_vars

\* C19 witness: P1 scored off the baseline after metrics were recorded for P1 and
\* then, by process, for another project.
C19_Witness ==
    /\ Scored
    /\ last.project_id = Some("P1")
    /\ last.outcome.value.social_score > Points(50)
    /\ Len(social_metrics) > 1
    /\ social_metrics[1].project_id = Some("P1")
    /\ social_metrics[Len(social_metrics)].project_id = Some("RES_2024_TAMPA_001")
    /\ last.outcome.value = calculate_esg_score(
                                [Store EXCEPT !.soc = <<social_metrics[1]>>], Some("P1"))

----------------------------------------------------------------------------
(* Properties of the score *)

\* The log holds no metric of the project that was scored.
EmptyLog ==
    /\ MetricsFor(environmental_metrics, last.project_id) = <<>>
    /\ MetricsFor(social_metrics, last.project_id) = <<>>
    /\ MetricsFor(governance_metrics, last.project_id) = <<>>

\* C14: for a project with no metric in the log, calculate_esg_score returns 50 for
\* the environmental, social and governance scores, 50 overall, and the
\* certification level "Standard".
C14_EmptyLogBaseline ==
    (Scored /\ EmptyLog) =>
        /\ last.outcome.value.environmental_score = Points(50)
        /\ last.outcome.value.social_score = Points(50)
        /\ last.outcome.value.governance_score = Points(50)
        /\ last.outcome.value.overall_score = 50 * 1000000
        /\ last.outcome.value.certification_level = "Standard"

\* C14 witness: P2 scored at the baseline while the log holds metrics of P1 only.
C14_Witness ==
    /\ Scored
    /\ last.project_id = Some("P2")
    /\ EmptyLog
    /\ TotalMetrics = 3
    /\ last.outcome.value.overall_score = 50 * 1000000
    /\ last.outcome.value.certification_level = "Standard"

\* C16: the overall score is 0.40 * environmental + 0.35 * social + 0.25 * governance
\* of the category scores returned with it, not clamped.
C16_OverallIsWeightedSum ==
    Scored =>
        last.outcome.value.overall_score
            = last.outcome.value.environmental_score * 40
              + last.outcome.value.social_score * 35
              + last.outcome.value.governance_score * 25

\* C16 witness: three different category scores, the environmental one negative,
\* and a negative overall score.
C16_Witness ==
    /\ Scored
    /\ last.outcome.value.environmental_score < 0
    /\ last.outcome.value.social_score > Points(50)
    /\ last.outcome.value.governance_score = Points(50)
    /\ last.outcome.value.overall_score < 0

----------------------------------------------------------------------------
(* The certification level, applied once to each overall score *)

\* Overall scores in 1/1000000 points: every whole score from -10 to 100, and the
\* scores 0.001 and 0.000001 to either side of each threshold.
TierScores ==
    {k * 1000000 : k \in (0 - 10)..100}
    \cup {t * 1000000 + d : t \in {60, 70, 80, 90}, d \in {0 - 1000, 0 - 1, 1, 1000}}

InitTier ==
    /\ InitEngine
    /\ today = 20240101
    /\ last \in [op : {"certification_level"}, done : {FALSE},
                 overall_score : TierScores, level : {""}]

CallCertificationLevel ==
    /\ last.op = "certification_level"
    /\ ~last.done
    /\ last' = [last EXCEPT !.done = TRUE,
                            !.level = certification_level(last.overall_score)]
    /\ UNCHANGED <<trackers, catalog, today, tasks>>

NextTier == CallCertificationLevel

SpecTier == InitTier /\ [][NextTier]_vars

TierCalled == last.op = "certification_level" /\ last.done

\* C15: the certification level is Platinum from 90, Gold from 80 to below 90,
\* Silver from 70 to below 80, Bronze from 60 to below 70 and Standard below 60.
C15_TierThresholds ==
    TierCalled =>
        /\ last.overall_score >= 90 * 1000000 => last.level = "Platinum"
        /\ (80 * 1000000 <= last.overall_score /\ last.overall_score < 90 * 1000000)
              => last.level = "Gold"
        /\ (70 * 1000000 <= last.overall_score /\ last.overall_score < 80 * 1000000)
              => last.level = "Silver"
        /\ (60 * 1000000 <= last.overall_score /\ last.overall_score < 70 * 1000000)
              => last.level = "Bronze"
        /\ last.overall_score < 60 * 1000000 => last.level = "Standard"

\* C15 witness: the score 80 exactly, which is Gold.
C15_Witness ==
    /\ TierCalled
    /\ last.overall_score = 80 * 1000000
    /\ last.level = "Gold"

----------------------------------------------------------------------------
(* The engine with its catalog methods called directly *)

CatalogProjects ==
    {ResidentialProject, EndToEndProject, [ResidentialProject EXCEPT !["state"] = None]}

\* calculate_available_incentives that collects into the federal list itself
\* (available_incentives = self.federal_incentives) instead of a new list.
AvailableIncentives_aliasing ==
    \E project_data \in CatalogProjects :
        \E r \in {calculate_available_incentives(project_data, today)} :
            /\ last' = [op |-> "calculate_available_incentives",
                        project_data |-> project_data, current_date |-> today,
                        outcome |-> r]
            /\ federal_incentives' = IF r.kind = "return" THEN r.value
                                                           ELSE federal_incentives
            /\ UNCHANGED <<trackers, state_incentives, local_incentives,
                           utility_incentives, today, tasks>>

AvailableIncentives ==
    \E project_data \in CatalogProjects :
        \E r \in {calculate_available_incentives(project_data, today)} :
            /\ last' = [op |-> "calculate_available_incentives",
                        project_data |-> project_data, current_date |-> today,
                        outcome |-> r]
            /\ UNCHANGED <<trackers, catalog, today, tasks>>

CheckEligibility ==
    \E i \in 1..Len(federal_incentives), project_data \in CatalogProjects :
        /\ last' = [op |-> "_check_eligibility", incentive |-> federal_incentives[i],
                    project_data |-> project_data, current_date |-> today,
                    outcome |-> Return(_check_eligibility(federal_incentives[i],
                                                          project_data, today))]
        /\ UNCHANGED <<trackers, catalog, today, tasks>>

IncentiveValue ==
    \E i \in 1..Len(federal_incentives), project_data \in CatalogProjects :
        /\ last' = [op |-> "calculate_incentive_value", incentive |-> federal_incentives[i],
                    project_data |-> project_data, current_date |-> today,
                    outcome |-> Return(calculate_incentive_value(
                                           federal_incentives[i],
                                           Get(project_data, "project_cost", 0),
                                           project_data["project_size"]))]
        /\ UNCHANGED <<trackers, catalog, today, tasks>>

NextCatalog ==
    \/ ProcessOf(CatalogProjects)
    \/ AvailableIncentives
    \/ CheckEligibility
    \/ IncentiveValue
    \/ AdvanceDay

SpecCatalog == Init /\ [][NextCatalog]_vars

\* C18: no call of process_project_esg_incentives, calculate_available_incentives,
\* _check_eligibility or calculate_incentive_value changes the federal, state, local
\* or utility table, or a field of an incentive in them.
C18_CatalogReadOnly ==
    [][/\ federal_incentives' = federal_incentives
       /\ state_incentives' = state_incentives
       /\ local_incentives' = local_incentives
       /\ utility_incentives' = utility_incentives]_vars

\* C18 witness: after process recorded metrics and, on a later day, the incentives
\* of a project were listed, the four tables are as they were loaded.
C18_Witness ==
    /\ last.op = "calculate_available_incentives"
    /\ last.outcome.kind = "return"
    /\ Len(last.outcome.value) > 0
    /\ Len(social_metrics) > 0
    /\ today > 20241231
    /\ federal_incentives = _load_federal_incentives
    /\ state_incentives = _load_state_incentives
    /\ local_incentives = _load_local_incentives
    /\ utility_incentives = _load_utility_incentives

----------------------------------------------------------------------------
(* Concurrent process calls on one engine *)

\* The process coroutines a host runs at once on the shared engine.
MaxTasks == 2

ConcurrentProjects ==
    SharedProjects \cup {[ResidentialProject EXCEPT !["total_hours"] = Some(0)]}

Finished == {"returned", "raised"}

\* A process coroutine resumed at its await point `pc` on the trackers st: the call
\* it awaits runs to its end (no tracker method awaits inside), and the coroutine
\* stops at its next await, returns or raises.
task_step(pc, project_data, st, current_date) ==
    LET project_id == project_data["project_id"]
        project_type == Get(project_data, "project_type", "")
        To(r, next) == [store |-> r.store, outcome |-> r.outcome,
                        pc |-> IF r.outcome.kind = "raise" THEN "raised" ELSE next]
    IN  CASE pc = "track_renewable_energy" ->
               To(IF LowerContains(project_type, "solar")
                  THEN track_renewable_energy(st, project_id, "solar_pv",
                           Get(project_data, "system_capacity_kw", 10),
                           Get(project_data, "annual_production_kwh", 15000))
                  ELSE Done(st, None),
                  "track_energy_efficiency")
          [] pc = "track_energy_efficiency" ->
               To(IF LowerContains(project_type, "energy efficiency")
                  THEN track_energy_efficiency(st, project_id,
                           Get(project_data, "building_type", "commercial"),
                           Get(project_data, "square_footage", 5000),
                           Get(project_data, "baseline_energy_usage", 100000),
                           Get(project_data, "projected_energy_usage", 70000))
                  ELSE Done(st, None),
                  "track_local_hiring")
          [] pc = "track_local_hiring" ->
               To(track_local_hiring(st, project_id,
                                     Get(project_data, "total_workers", 10),
                                     Get(project_data, "local_workers", 8)),
                  "track_safety_metrics")
          [] pc = "track_safety_metrics" ->
               To(track_safety_metrics(st, project_id,
                                       Get(project_data, "total_hours", 2000),
                                       Get(project_data, "incidents", 0),
                                       Get(project_data, "near_misses", 2)),
                  "calculate_esg_score")
          [] pc = "calculate_esg_score" ->
               To(report_after_tracking(st, project_data, current_date), "returned")

\* The host starts one process coroutine per project input; none has run yet.
Gather ==
    /\ tasks = <<>>
    /\ \E inputs \in [1..MaxTasks -> ConcurrentProjects] :
          tasks' = [t \in 1..MaxTasks |->
                       [project_data |-> inputs[t], pc |-> "track_renewable_energy",
                        outcome |-> Return(None)]]
    /\ UNCHANGED <<trackers, catalog, today, last>>

\* The trackers with the metrics of one project only.
OwnStore(project_id) ==
    [Store EXCEPT !.env = MetricsFor(@, project_id),
                  !.soc = MetricsFor(@, project_id),
                  !.gov = MetricsFor(@, project_id)]

\* A coroutine that works on the metrics of its own project and writes them back
\* as the tracker lists.
Resume_private(t) ==
    /\ t \in DOMAIN tasks
    /\ tasks[t].pc \notin Finished
    /\ \E r \in {task_step(tasks[t].pc, tasks[t].project_data,
                           OwnStore(tasks[t].project_data["project_id"]), today)} :
          /\ environmental_metrics' = r.store.env
          /\ carbon_credits' = r.store.credits
          /\ social_metrics' = r.store.soc
          /\ governance_metrics' = r.store.gov
          /\ tasks' = [tasks EXCEPT ![t].pc = r.pc, ![t].outcome = r.outcome]
          /\ last' = IF r.pc \in Finished
                     THEN [op |-> "process_project_esg_incentives",
                           project_data |-> tasks[t].project_data,
                           current_date |-> today, outcome |-> r.outcome]
                     ELSE last
    /\ UNCHANGED <<catalog, today>>

\* The event loop resumes coroutine t, which runs up to its next await.
Resume(t) ==
    /\ t \in DOMAIN tasks
    /\ tasks[t].pc \notin Finished
    /\ \E r \in {task_step(tasks[t].pc, tasks[t].project_data, Store, today)} :
          /\ environmental_metrics' = r.store.env
          /\ carbon_credits' = r.store.credits
          /\ social_metrics' = r.store.soc
          /\ governance_metrics' = r.store.gov
          /\ tasks' = [tasks EXCEPT ![t].pc = r.pc, ![t].outcome = r.outcome]
          /\ last' = IF r.pc \in Finished
                     THEN [op |-> "process_project_esg_incentives",
                           project_data |-> tasks[t].project_data,
                           current_date |-> today, outcome |-> r.outcome]
                     ELSE last
    /\ UNCHANGED <<catalog, today>>

NextConcurrent == Gather \/ \E t \in 1..MaxTasks : Resume(t)

SpecConcurrent == Init /\ [][NextConcurrent]_vars

AllFinished == tasks # <<>> /\ \A t \in DOMAIN tasks : tasks[t].pc \in Finished

\* How many times m occurs in the list s.
Count(s, m) == Cardinality({i \in 1..Len(s) : s[i] = m})

\* What coroutine t records when it runs alone on a fresh engine.
RecordedAlone(t) ==
    _track_project_metrics([env |-> <<>>, credits |-> <<>>, soc |-> <<>>, gov |-> <<>>],
                           tasks[t].project_data["project_id"],
                           tasks[t].project_data).store

RECURSIVE CountAlone(_, _, _)
CountAlone(tracker, m, n) ==
    IF n = 0 THEN 0
    ELSE CountAlone(tracker, m, n - 1) + Count(RecordedAlone(n)[tracker], m)

\* Each metric of the list `metrics` is there as many times as the coroutines
\* recorded it, and the list is as long as what they recorded together.
ExactlyOnce(tracker, metrics) ==
    /\ \A i \in 1..Len(metrics) :
          Count(metrics, metrics[i]) = CountAlone(tracker, metrics[i], MaxTasks)
    /\ Len(metrics) = SumSeq([t \in 1..MaxTasks |-> Len(RecordedAlone(t)[tracker])])

\* C20: when process coroutines interleaved at their awaits have all finished, each
\* tracker's list holds every metric each of them recorded exactly once: none lost,
\* none twice.
C20_AppendsSerialized ==
    AllFinished =>
        /\ ExactlyOnce("env", environmental_metrics)
        /\ ExactlyOnce("soc", social_metrics)
        /\ ExactlyOnce("gov", governance_metrics)

\* C20 witness: two coroutines for different projects have finished and their
\* social metrics alternate in the list.
C20_Witness ==
    /\ AllFinished
    /\ tasks[1].project_data["project_id"] # tasks[2].project_data["project_id"]
    /\ Len(social_metrics) = 6
    /\ social_metrics[1].project_id = tasks[1].project_data["project_id"]
    /\ social_metrics[2].project_id = tasks[2].project_data["project_id"]
    /\ social_metrics[3].project_id = tasks[1].project_data["project_id"]
    /\ environmental_metrics # <<>>

----------------------------------------------------------------------------
(* The deadline tests of the evaluator *)

DeadlineRejects == Passed(last.incentive.application_deadline)
                   \/ Passed(last.incentive.project_completion_deadline)

\* C21: for an incentive of which a criterion matches, the evaluator rejects exactly
\* when today is strictly later than a set application_deadline or strictly later
\* than a set project_completion_deadline; on the deadline day itself and for an
\* unset deadline that deadline does not reject.
C21_DeadlineRejectsStrictlyAfter ==
    (EligibilityChecked /\ AnyCriterionMatches(last.incentive, last.project_data)) =>
        /\ (last.outcome.value = FALSE) <=> DeadlineRejects
        /\ (/\ last.incentive.application_deadline \in {None, Some(today)}
            /\ last.incentive.project_completion_deadline \in {None, Some(today)})
              => last.outcome.value = TRUE

\* C21 witness: today is the application deadline, the completion deadline lies
\* ahead, a criterion matches: eligible.
C21_Witness ==
    /\ EligibilityChecked
    /\ last.incentive.application_deadline = Some(today)
    /\ last.incentive.project_completion_deadline # None
    /\ AnyCriterionMatches(last.incentive, last.project_data)
    /\ last.outcome.value = TRUE

----------------------------------------------------------------------------
(* The category scores, applied once to each list of metrics *)

MaxScored == 4

\* An environmental metric of project P1 as the scoring reads it: its name, its
\* value (in hundredths) and whether it is third-party verified.
Scored_environmental(metric_name, value, third_party_verified) ==
    ESGMetric("environmental", metric_name, value, "percentage", Some("P1"),
              "audit", third_party_verified, None)

Scored_social(metric_name, value, third_party_verified) ==
    ESGMetric("social", metric_name, value, "percentage", Some("P1"),
              "audit", third_party_verified, None)

\* Values below and above each cap, a negative improvement, both renewable names,
\* and a name the loop does not score.
EnvironmentalInputs ==
    {Scored_environmental("energy_efficiency_improvement", 0 - 30000, TRUE),
     Scored_environmental("energy_efficiency_improvement", 3000, FALSE),
     Scored_environmental("energy_efficiency_improvement", 10000, TRUE),
     Scored_environmental("renewable_energy_solar_pv", 1000, TRUE),
     Scored_environmental("renewable_energy_wind", 150000, FALSE),
     Scored_environmental("water_efficiency_improvement", 3000, FALSE),
     Scored_environmental("water_efficiency_improvement", 10000, TRUE),
     Scored_environmental("waste_diversion_rate", 3000, TRUE),
     Scored_environmental("waste_diversion_rate", 10000, FALSE),
     Scored_environmental("carbon_footprint", 500, TRUE)}

\* Rates below and above each cap, incident rates on both sides of 2.0 and 4.0,
\* and a name the loop does not score.
SocialInputs ==
    {Scored_social("local_hire_rate", 3000, FALSE),
     Scored_social("local_hire_rate", 8000, TRUE),
     Scored_social("minority_hire_rate", 2000, FALSE),
     Scored_social("women_hire_rate", 6000, FALSE),
     Scored_social("apprenticeship_rate", 2000, FALSE),
     Scored_social("apprenticeship_rate", 5000, FALSE),
     Scored_social("osha_incident_rate", 199, FALSE),
     Scored_social("osha_incident_rate", 200, FALSE),
     Scored_social("osha_incident_rate", 399, FALSE),
     Scored_social("osha_incident_rate", 400, FALSE),
     Scored_social("near_miss_rate", 200000, FALSE)}

InitCategory ==
    /\ InitEngine
    /\ today = 20240101
    /\ \/ last \in [op : {"_calculate_environmental_score"}, done : {FALSE},
                    metrics : SeqsUpTo(EnvironmentalInputs, MaxScored), score : {0}]
       \/ last \in [op : {"_calculate_social_score"}, done : {FALSE},
                    metrics : SeqsUpTo(SocialInputs, MaxScored), score : {0}]

CallEnvironmentalScore ==
    /\ last.op = "_calculate_environmental_score"
    /\ ~last.done
    /\ last' = [last EXCEPT !.done = TRUE,
                            !.score = _calculate_environmental_score(last.metrics)]
    /\ UNCHANGED <<trackers, catalog, today, tasks>>

CallSocialScore ==
    /\ last.op = "_calculate_social_score"
    /\ ~last.done
    /\ last' = [last EXCEPT !.done = TRUE,
                            !.score = _calculate_social_score(last.metrics)]
    /\ UNCHANGED <<trackers, catalog, today, tasks>>

NextCategory == CallEnvironmentalScore \/ CallSocialScore

SpecCategory == InitCategory /\ [][NextCategory]_vars

EnvironmentalScored == last.op = "_calculate_environmental_score" /\ last.done

SocialScored == last.op = "_calculate_social_score" /\ last.done

\* The contribution of an environmental metric, by its name.
EnvironmentalContribution(m) ==
    CASE m.metric_name = "energy_efficiency_improvement" -> Min(Points(20), m.value * 50)
      [] StrIn(Chars("renewable_energy"), Chars(m.metric_name)) -> Points(15)
      [] m.metric_name = "water_efficiency_improvement" -> Min(Points(10), m.value * 30)
      [] m.metric_name = "waste_diversion_rate" -> Min(Points(15), m.value * 20)
      [] OTHER -> 0

Verified(metrics) == {i \in 1..Len(metrics) : metrics[i].third_party_verified}

\* C22: for a non-empty environmental metric list the score is
\* min(100, 50 + the sum of the contributions + 2 for every verified metric), the
\* contribution being min(20, value*0.5) for energy_efficiency_improvement, 15 for a
\* name containing renewable_energy, min(10, value*0.3) for
\* water_efficiency_improvement, min(15, value*0.2) for waste_diversion_rate and 0
\* for any other name; the bonus is given to a verified metric of any name.
C22_EnvironmentalScoreFormula ==
    (EnvironmentalScored /\ last.metrics # <<>>) =>
        last.score =
            Min(Points(100),
                Points(50)
                + SumSeq([i \in 1..Len(last.metrics) |->
                             EnvironmentalContribution(last.metrics[i])])
                + Points(2) * Cardinality(Verified(last.metrics)))

\* C22 witness: a verified metric of a name that is not scored and an unverified
\* wind installation: 50 + 0 + 15 + 2 = 67.
C22_Witness ==
    /\ EnvironmentalScored
    /\ \E i \in 1..Len(last.metrics) :
          last.metrics[i].metric_name = "carbon_footprint"
          /\ last.metrics[i].third_party_verified
    /\ \E i \in 1..Len(last.metrics) :
          last.metrics[i].metric_name = "renewable_energy_wind"
    /\ Len(last.metrics) = 2
    /\ last.score = Points(67)

\* The contribution of a social metric, by the one rule that applies to its name.
SocialContribution(m) ==
    CASE m.metric_name = "local_hire_rate" -> Min(Points(15), m.value * 30)
      [] m.metric_name # "local_hire_rate"
         /\ StrIn(Chars("hire_rate"), Chars(m.metric_name)) -> Min(Points(10), m.value * 20)
      [] m.metric_name = "apprenticeship_rate" -> Min(Points(10), m.value * 40)
      [] m.metric_name = "osha_incident_rate" /\ m.value < 200 -> Points(15)
      [] m.metric_name = "osha_incident_rate" /\ 200 <= m.value /\ m.value < 400 -> Points(5)
      [] OTHER -> 0

\* C23: for a non-empty social metric list the score is min(100, 50 + the sum of the
\* contributions), each metric contributing by exactly one rule: local_hire_rate
\* min(15, value*0.3) and nothing more, any other name containing hire_rate
\* min(10, value*0.2), apprenticeship_rate min(10, value*0.4), osha_incident_rate 15
\* below 2.0, 5 from 2.0 to below 4.0 and 0 from 4.0, every other name 0.
C23_SocialScoreFormula ==
    (SocialScored /\ last.metrics # <<>>) =>
        last.score =
            Min(Points(100),
                Points(50)
                + SumSeq([i \in 1..Len(last.metrics) |->
                             SocialContribution(last.metrics[i])]))

\* C23 witness: a local hire rate of 80 percent alone: 50 + 15, and not 50 + 15 + 10.
C23_Witness ==
    /\ SocialScored
    /\ Len(last.metrics) = 1
    /\ last.metrics[1].metric_name = "local_hire_rate"
    /\ last.metrics[1].value = 8000
    /\ last.score = Points(65)

----------------------------------------------------------------------------
(* What a process call records, and when *)

\* A step that is one call of process_project_esg_incentives.
ProcessStep == last'.op = "process_project_esg_incentives" /\ today' = today

\* What a step appended to a list.
Appended(before, after) == SubSeq(after, Len(before) + 1, Len(after))

\* Whether the project type mentions the word, in whatever case.
TypeMentions(project_data, word) ==
    Get(project_data, "project_type", "") \in InLowerTable[word]

NameAndProject(m) == <<m.metric_name, m.project_id>>

\* The environmental metrics fixed by the project type, by name and project.
FixedEnvironmental(project_data) ==
    (IF TypeMentions(project_data, "solar")
     THEN << <<"renewable_energy_solar_pv", project_data["project_id"]>> >> ELSE <<>>)
    \o (IF TypeMentions(project_data, "energy efficiency")
        THEN << <<"energy_efficiency_improvement", project_data["project_id"]>> >>
        ELSE <<>>)

\* The social metrics every call records.
FixedSocial(project_data) ==
    << <<"local_hire_rate", project_data["project_id"]>>,
       <<"osha_incident_rate", project_data["project_id"]>>,
       <<"near_miss_rate", project_data["project_id"]>> >>

\* The documented defaults, where the project input has no field: a capacity of
\* 10 kW, and 5000 square feet with a usage of 100000 falling to 70000, which is an
\* improvement of 30 percent and an offset of 30000 * 5000 / 1000 * 0.0007 = 105 tons.
DefaultsUsed(project_data, recorded) ==
    \A i \in 1..Len(recorded) :
        /\ (recorded[i].metric_name = "renewable_energy_solar_pv"
            /\ project_data["system_capacity_kw"] = None)
              => recorded[i].value = 10 * 100
        /\ (recorded[i].metric_name = "energy_efficiency_improvement"
            /\ project_data["square_footage"] = None
            /\ project_data["baseline_energy_usage"] = None
            /\ project_data["projected_energy_usage"] = None)
              => /\ recorded[i].value = 30 * 100
                 /\ recorded[i].carbon_offset_tons = Some(105 * 10000)

\* The score of the report is the score of the log the step leaves.
ScoredFromLogAfter ==
    \A project_id \in {last'.project_data["project_id"]} :
        /\ last'.outcome.value.esg_score.environmental
              = _calculate_environmental_score(MetricsFor(environmental_metrics', project_id))
        /\ last'.outcome.value.esg_score.social
              = _calculate_social_score(MetricsFor(social_metrics', project_id))
        /\ last'.outcome.value.esg_score.governance
              = _calculate_governance_score(MetricsFor(governance_metrics', project_id))

----------------------------------------------------------------------------
(* More criteria never block *)

\* The incentive with one more criterion at the end of its list.
WithCriterion(incentive, criterion) ==
    [incentive EXCEPT !.eligibility_criteria = Append(@, criterion)]

\* C25: appending any criterion to the criteria list of an incentive never turns an
\* eligible result into an ineligible one, for every incentive, project input and
\* date: a criterion that matches none of the five rules does not block.
C25_MoreCriteriaNeverBlock ==
    (EligibilityChecked /\ last.outcome.value = TRUE) =>
        \A criterion \in EligibilityCriteria :
            _check_eligibility(WithCriterion(last.incentive, criterion),
                               last.project_data, today) = TRUE

\* C25 witness: an incentive whose last criterion matches no rule for the project,
\* after one that does: eligible.
C25_Witness ==
    /\ EligibilityChecked
    /\ last.incentive.eligibility_criteria = <<"Wind energy facility", "Florida resident">>
    /\ last.project_data["project_type"] = Some("wind turbine retrofit")
    /\ last.outcome.value = TRUE

----------------------------------------------------------------------------
(* The start deadline *)

\* A start deadline unset, passed on every day but the first, and not yet reached.
StartDeadlines == {None, Some(20241231), Some(20330101)}

WithStartDeadline(incentive, deadline) ==
    [incentive EXCEPT !.project_start_deadline = deadline]

Listed(incentive_id) ==
    \E i \in 1..Len(last.outcome.value) : last.outcome.value[i].incentive_id = incentive_id

\* C29: project_start_deadline never influences eligibility: an incentive that
\* differs from the one evaluated in its project_start_deadline only (unset, passed
\* or ahead) gets the same result for the same project input on the same day; the
\* wind credit, whose start deadline is 2024-12-31, is listed for a wind project on
\* every later day too.
C29_StartDeadlineIgnored ==
    /\ EligibilityChecked =>
          \A deadline \in StartDeadlines :
              _check_eligibility(WithStartDeadline(last.incentive, deadline),
                                 last.project_data, today) = last.outcome.value
    /\ (/\ IncentivesListed
        /\ last.outcome.kind = "return"
        /\ last.project_data["project_type"] = Some("wind turbine retrofit"))
          => Listed("PTC_WIND_2024")

\* C29 witness: the wind credit listed for a wind project after its start deadline.
C29_Witness ==
    /\ IncentivesListed
    /\ last.outcome.kind = "return"
    /\ today > 20241231
    /\ \E i \in 1..Len(last.outcome.value) :
          /\ last.outcome.value[i].incentive_id = "PTC_WIND_2024"
          /\ last.outcome.value[i].project_start_deadline = Some(20241231)

----------------------------------------------------------------------------
(* The jurisdiction of what the lookup returns *)

\* C28: every incentive returned by calculate_available_incentives has a state
\* field that is "ALL" or the state of the project, on every lookup path.
C28_JurisdictionConsistent ==
    (IncentivesListed /\ last.outcome.kind = "return") =>
        \A i \in 1..Len(last.outcome.value) :
            \/ last.outcome.value[i].state = "ALL"
            \/ last.project_data["state"] = Some(last.outcome.value[i].state)

----------------------------------------------------------------------------
(* The cap and the incentives without a percentage *)

\* C27: max_amount caps percentage-based incentives only: for an incentive without
\* a percentage the value is projectSize * amount when a size and an amount are
\* given (both non-zero) and the flat amount (0 if unset) otherwise, whatever
\* max_amount is, so it may exceed a set max_amount: amount 1000, max_amount 1000
\* and projectSize 8 give 8000.
C27_CapOnlyForPercentage ==
    (ValueCalled /\ last.incentive.percentage = None) =>
        /\ \E uncapped \in {IF Truthy(last.project_size) /\ Truthy(last.incentive.amount)
                            THEN last.project_size[1] * last.incentive.amount[1]
                            ELSE OrElse(last.incentive.amount, 0)} :
              last.value = uncapped
        /\ (/\ last.incentive.amount = Some(Dollars(1000))
            /\ last.incentive.max_amount = Some(Dollars(1000))
            /\ last.project_size = Some(8))
              => last.value = Dollars(8000)

\* C27 witness: amount 1000, max_amount 1000, size 8, no percentage: 8000.
C27_Witness ==
    /\ ValueCalled
    /\ last.incentive.percentage = None
    /\ last.incentive.amount = Some(Dollars(1000))
    /\ last.incentive.max_amount = Some(Dollars(1000))
    /\ last.project_size = Some(8)
    /\ last.value = Dollars(8000)
    /\ last.value > last.incentive.max_amount[1]

----------------------------------------------------------------------------
(* Repeated process calls for the same project *)

MaxCalls == 4

\* The storm restoration project of main(), lines 929-948.
StormProject ==
    [EmptyProject EXCEPT
        !["project_id"] = Some("STORM_2024_MIAMI_001"),
        !["project_type"] = Some("storm restoration with solar installation"),
        !["building_type"] = Some("commercial"),
        !["project_cost"] = Some(Dollars(250000)),
        !["system_capacity_kw"] = Some(50),
        !["annual_production_kwh"] = Some(75000),
        !["square_footage"] = Some(10000),
        !["baseline_energy_usage"] = Some(120000),
        !["projected_energy_usage"] = Some(80000),
        !["state"] = Some("FL"),
        !["city"] = Some("Miami"),
        !["utility_provider"] = Some("Florida Power & Light"),
        !["total_workers"] = Some(15),
        !["local_workers"] = Some(12),
        !["total_hours"] = Some(3000),
        !["incidents"] = Some(0),
        !["near_misses"] = Some(1),
        !["project_size"] = Some(50)]

\* The two projects of main(): both solar, neither an energy efficiency project.
AccumulateProjects == {StormProject, ResidentialProject}

\* process_project_esg_incentives called once more with one of the two inputs.
ProcessAgain ==
    \E project_data \in AccumulateProjects :
        /\ Len(MetricsFor(environmental_metrics, project_data["project_id"])) < MaxCalls
        /\ \E r \in {process_project_esg_incentives(Store, project_data, today)} :
              /\ environmental_metrics' = r.store.env
              /\ carbon_credits' = r.store.credits
              /\ social_metrics' = r.store.soc
              /\ governance_metrics' = r.store.gov
              /\ last' = [op |-> "process_project_esg_incentives",
                          project_data |-> project_data, current_date |-> today,
                          outcome |-> r.outcome]
              /\ UNCHANGED <<catalog, today, tasks>>

NextAccumulate == ProcessAgain \/ AdvanceDay

SpecAccumulate == Init /\ [][NextAccumulate]_vars

\* The renewable-energy metrics the environmental log holds for the project.
RenewableOf(metrics, project_id) ==
    SelectSeq(metrics, LAMBDA m : m.project_id = project_id
                                  /\ StrIn(Chars("renewable_energy"), Chars(m.metric_name)))

\* C26: process is not read-only on the trackers, and repeated calls accumulate:
\* every process call with the same solar project input adds one renewable-energy
\* metric to the project's environmental log, which holds nothing else, so that
\* after n calls on a fresh engine it holds n of them, and the environmental score
\* the n-th call reports is min(100, 50 + 17 * n): 67, 84, 100, 100.
C26_RepeatedCallsAccumulate ==
    [][ProcessStep =>
          \A project_id \in {last'.project_data["project_id"]} :
          \A n \in {Len(RenewableOf(environmental_metrics', project_id))} :
              /\ n = Len(RenewableOf(environmental_metrics, project_id)) + 1
              /\ n = Len(MetricsFor(environmental_metrics', project_id))
              /\ last'.outcome.kind = "return"
              /\ last'.outcome.value.esg_score.environmental
                    = Min(Points(100), Points(50) + Points(17) * n)
              /\ n = 1 => last'.outcome.value.esg_score.environmental = Points(67)
              /\ n = 2 => last'.outcome.value.esg_score.environmental = Points(84)
              /\ n >= 3 => last'.outcome.value.esg_score.environmental = Points(100)]_vars

\* C26 witness: the third call for the residential project has returned: three
\* renewable-energy metrics in its log and an environmental score of 100, not 101.
C26_Witness ==
    /\ Reported
    /\ last.project_data = ResidentialProject
    /\ Len(RenewableOf(environmental_metrics, Some("RES_2024_TAMPA_001"))) = 3
    /\ last.outcome.value.esg_score.environmental = Points(100)

----------------------------------------------------------------------------
(* What scoring and incentive evaluation leave alone *)

\* track_certification_status for one of the two projects, while the governance
\* tracker is empty.
TrackCertifications ==
    /\ governance_metrics = <<>>
    /\ \E project_data \in SharedProjects :
          Leaves(track_certification_status(Store, project_data["project_id"], <<"LEED">>),
                 "track_certification_status", project_data["project_id"])

NextReadOnly ==
    \/ ProcessOf(SharedProjects)
    \/ TrackCertifications
    \/ Score
    \/ AvailableIncentives
    \/ IncentiveValue
    \/ AdvanceDay

SpecReadOnly == Init /\ [][NextReadOnly]_vars

ReadOnlyCalls ==
    {"calculate_esg_score", "calculate_available_incentives", "calculate_incentive_value"}

\* C30: calculate_esg_score, calculate_available_incentives and
\* calculate_incentive_value leave the three tracker metric lists and the
\* carbon_credits map as they were.
C30_ScoringAndIncentivesReadOnly ==
    [][last'.op \in ReadOnlyCalls =>
          /\ environmental_metrics' = environmental_metrics
          /\ social_metrics' = social_metrics
          /\ governance_metrics' = governance_metrics
          /\ carbon_credits' = carbon_credits]_vars

\* C30 witness: a score computed for a project with metrics in all three trackers
\* and a carbon credit.
C30_Witness ==
    /\ last.op = "calculate_esg_score"
    /\ last.project_id = Some("STORM_2024_MIAMI_001")
    /\ MetricsFor(environmental_metrics, last.project_id) # <<>>
    /\ MetricsFor(social_metrics, last.project_id) # <<>>
    /\ MetricsFor(governance_metrics, last.project_id) # <<>>
    /\ last.project_id \in DOMAIN carbon_credits
    /\ last.outcome.value.environmental_score > Points(50)
=============================================================================
